---- MODULE Spec2Model ----
(***************************************************************************)
(* Verification model of the ringbuf crate: the wrap-safe counter, the     *)
(* claim/commit sequence protocol (Owned and Shared), the bounded queue    *)
(* Half, the channel facade and the blocking protocols.                    *)
(***************************************************************************)
EXTENDS Integers, Naturals, Sequences, FiniteSets, Bags, TLC

(***************************************************************************)
(* Bounds of the model.                                                    *)
(***************************************************************************)
\* width of the machine word in the model (usize is WORD bits wide)
WORD == 8
\* log2 of the ring capacity handed to the queue constructor
CapBits == 1
\* largest number of sender handles (the first one plus its clones)
NSenders == 2
\* largest number of receiver handles (the first one plus its clones)
NReceivers == 2
\* number of try_send calls that may be accepted in one run
MaxSends == 3
\* payload values are drawn from 1..MaxMsg
MaxMsg == 1
\* calls made on an AtomicCounter in one run
MaxOps == 4

RECURSIVE Pow2(_)
Pow2(n) == IF n = 0 THEN 1 ELSE 2 * Pow2(n - 1)

WordMod == Pow2(WORD)
Capacity == Pow2(CapBits)
Msgs == 1..MaxMsg

(***************************************************************************)
(* counter/counter.rs: Counter is a usize whose LSB is the close flag and  *)
(* whose two MSBs make the ordering cyclic.                                *)
(***************************************************************************)
COUNTER_FULL_RANGE == Pow2(WORD - 1)
COUNTER_VALID_RANGE == Pow2(WORD - 3)

\* value.0 & MSB == MSB
msb_pp(value) == value \div Pow2(WORD - 2) = 3
\* value.0 & MSB == 0
msb_nn(value) == value \div Pow2(WORD - 2) = 0

\* Counter::new(init) = Counter(init << 1)
CounterNew(init) == (init * 2) % WordMod

\* reinterpret a WORD-bit pattern as isize
AsSigned(x) == IF (x % WordMod) >= COUNTER_FULL_RANGE THEN (x % WordMod) - WordMod ELSE x % WordMod

\* PartialOrd::partial_cmp, as -1 / 0 / 1
CounterCmp(self, rhs) ==
    IF msb_nn(self) /\ msb_pp(rhs) THEN 1
    ELSE IF msb_pp(self) /\ msb_nn(rhs) THEN -1
    ELSE IF self < rhs THEN -1 ELSE IF self > rhs THEN 1 ELSE 0

CounterGe(a, b) == CounterCmp(a, b) >= 0
CounterLt(a, b) == CounterCmp(a, b) < 0

\* a subtraction that ignores the cyclic ordering
CounterSubPlain(self, rhs) == (self \div 2) - (rhs \div 2)

\* ops::Sub<Self>: signed distance
CounterSub(self, rhs) ==
    LET this == self \div 2
        that == rhs \div 2
    IN  IF (msb_nn(self) /\ msb_pp(rhs)) \/ (msb_pp(self) /\ msb_nn(rhs))
        THEN AsSigned(this - that + COUNTER_FULL_RANGE)
        ELSE this - that

\* ops::Add<usize>: Counter(self.0.wrapping_add(rhs << 1))
CounterAdd(self, rhs) == (self + ((rhs * 2) % WordMod)) % WordMod

\* ops::BitAnd<usize>: (self.0 >> 1) & rhs, for rhs = capacity - 1
CounterMask(self, capacity) == (self \div 2) % capacity


(***************************************************************************)
(* State.                                                                  *)
(***************************************************************************)
VARIABLES
    \* ---- bounded queue (queue/bounded, queue/head.rs, sequence/) and channel.rs ----
    facade,         \* the module whose Sender/Receiver sit on the Head: "bounded" |
                    \* "channel" | "sync" | "queue" | "extension"
    seqKind,        \* side -> "Owned" | "Shared": the Sequence type parameters S, R
    seqCount,       \* side -> raw value of Sequence.count (AtomicCounter)
    seqClaimed,     \* side -> raw value of Shared.claimed (AtomicCounter)
    headAmount,     \* side -> Head.sender_count / Head.receiver_count
    headIsClosed,   \* Head.is_closed
    bufBody,        \* ring slots, index -> payload or NoMsg
    half,           \* handle -> Half fields: alive, cache (count, limit), closed_cache
    pc,             \* handle -> position of the thread that owns the handle
    claimedReg,     \* handle -> the counter a running claim holds (local `claimed`/`count`)
    msgReg,         \* handle -> try_send's `input` / the message try_recv has read
    lastRet,        \* the latest return of a try_send / try_recv: [by, kind, payload]
    sendLog,        \* accepted sends, in commit order: [msg, ctr]
    recvLog         \* delivered messages, in commit order: [msg, ctr]

    \* ---- blocking send/recv: channel/half.rs, scheduler/mod.rs, scheduler/queue.rs ----
VARIABLES
    sendQuota,      \* number of blocking sends the sender thread performs in this run
    wqHead,         \* Queue.head: a tagged pointer [node, flag]
    wqTail,         \* Queue.tail
    wqNode,         \* node -> Node fields: role, handle (its thread, or NoHandle), next
    schedNode,      \* thread -> the node its Handle stores (Handle.node), or NoNode
    schedNotify,    \* thread -> its Handle stores a Notify (Handle.notify is Some)
    parkToken,      \* thread -> the thread has an unpark token pending
    reg             \* thread -> locals of push / pop: head, tail, next, node

queueVars == <<facade, seqKind, seqCount, seqClaimed, headAmount, headIsClosed, bufBody, half, pc,
               claimedReg, msgReg, lastRet, sendLog, recvLog>>

    \* ---- blocking receive of queue/half.rs: sequence/mod.rs, blocker.rs ----
VARIABLES
    blockers,       \* bucket -> Bucket.blockers: the threads whose Blocker is pushed, top first
    parkedAtDrop    \* the receivers that were parked when the last sender Half began to drop
                    \* and have not returned since

    \* ---- blocking send/recv of extension/blocking.rs ----
VARIABLES
    tristate,       \* Shared.tristate
    handleRx,       \* side -> the thread handles in flight to Shared.sender_rx / receiver_rx
    rxLock,         \* side -> the thread holding the Mutex of that rx, or NoHandle
    notifyFor       \* thread -> where its running notify_senders / notify_receivers returns to

syncVars == <<sendQuota, wqHead, wqTail, wqNode, schedNode, schedNotify, parkToken, reg>>

    \* ---- components checked on their own: counter/, buffer.rs, queue/chain.rs, ... ----
VARIABLES
    fnIn,           \* the arguments of the function under check, or the set-up of the run
    fnOut,          \* its result, or NoOut before the call
    unitObj,        \* the fields of the object under check
    unitPc,         \* thread -> position in the method it runs on the object
    unitReg,        \* thread -> the local variable of that method
    unitRet,        \* the latest return of a method of the object: [by, kind, payload]
    unitLog         \* the values handed out so far, in order

blockVars == <<blockers, parkedAtDrop>>

extVars == <<tristate, handleRx, rxLock, notifyFor>>

unitVars == <<fnIn, fnOut, unitObj, unitPc, unitReg, unitRet, unitLog>>

vars == <<queueVars, syncVars, blockVars, extVars, unitVars>>

(***************************************************************************)
(* Bounded queue: queue/bounded/mod.rs, queue/bounded/half.rs,             *)
(* queue/head.rs, sequence/owned.rs, sequence/shared.rs.                   *)
(***************************************************************************)
Sides == {"S", "R"}
SenderIds == 1..NSenders
ReceiverIds == (NSenders + 1)..(NSenders + NReceivers)
Handles == SenderIds \cup ReceiverIds
side(h) == IF h \in SenderIds THEN "S" ELSE "R"
FirstHandle(s) == IF s = "S" THEN 1 ELSE NSenders + 1

NoMsg == [by |-> 0, seq |-> 0, val |-> 0]
Ret(h, k, m) == [by |-> h, kind |-> k, payload |-> m]
NoRet == Ret(0, "NoResult", NoMsg)

\* number of sends accepted from handle h so far
SentBy(h) == Cardinality({i \in 1..Len(sendLog) : sendLog[i].msg.by = h})
\* try_send calls that are running
InFlightSends == Cardinality({h \in SenderIds : pc[h] # "idle"})

\* a limit one past the room the receivers have freed
SenderLimitPastEnd(receiver_count) == CounterAdd(receiver_count, Capacity + 1)

\* queue/head.rs, Limit for SenderHead: `self.head.receiver.count() + self.capacity`
SenderLimit(receiver_count) == CounterAdd(receiver_count, Capacity)

\* a limit one past the published sends
ReceiverLimitAhead(sender_count) == CounterAdd(sender_count, 1)

\* a limit that counts claimed, not yet published, sends
ReceiverLimitClaimed(sender_count) == seqClaimed["S"]

\* queue/head.rs, Limit for ReceiverHead: `self.head.sender.count()`
ReceiverLimit(sender_count) == sender_count

\* Limit::count() as seen by the Half of side s
Limit(s) ==
    IF s = "S" THEN SenderLimit(seqCount["R"]) ELSE ReceiverLimit(seqCount["S"])

\* a buffer that hands out its first slot for every counter
SlotFirst(count) == 0

\* Buffer::get_ptr(count): the slot of a counter
SlotOf(count) == CounterMask(count, Capacity)

HeadInit ==
    /\ seqKind \in [Sides -> {"Owned", "Shared"}]
    /\ seqCount = [s \in Sides |-> CounterNew(0)]
    /\ seqClaimed = [s \in Sides |-> CounterNew(0)]
    /\ headAmount = [s \in Sides |-> 1]
    /\ headIsClosed = FALSE
    /\ bufBody = [i \in 0..(Capacity - 1) |-> NoMsg]
    /\ half = [h \in Handles |->
                 [alive |-> IF h = FirstHandle(side(h)) THEN "live" ELSE "unborn",
                  count |-> CounterNew(0), limit |-> CounterNew(0),
                  closed_cache |-> FALSE]]
    /\ pc = [h \in Handles |-> "idle"]
    /\ claimedReg = [h \in Handles |-> CounterNew(0)]
    /\ msgReg = [h \in Handles |-> NoMsg]
    /\ lastRet = NoRet
    /\ sendLog = <<>>
    /\ recvLog = <<>>

\* tagged pointers of scheduler/atomic.rs: Ptr { flag, inner }
MkPtr(n, f) == [node |-> n, flag |-> f]
NullPtr == MkPtr(-1, 0)
NoNode == -1
NoHandle == 0
\* node 0 is the sentinel Queue::new() allocates; node h is the one Handle::new()
\* allocates for the Scheduler of thread h
NodeIds == {0} \cup Handles
NoRegs == [head |-> NullPtr, tail |-> NullPtr, next |-> NullPtr, node |-> NoNode]

\* Scheduler::new / Queue::new: head = tail = the sentinel, every Handle holds its node
SchedInit ==
    /\ wqHead = MkPtr(0, 0)
    /\ wqTail = MkPtr(0, 0)
    /\ wqNode = [n \in NodeIds |-> [role |-> "S", handle |-> NoHandle, next |-> NullPtr]]
    /\ schedNode = [h \in Handles |-> h]
    /\ schedNotify = [h \in Handles |-> FALSE]
    /\ parkToken = [h \in Handles |-> FALSE]
    /\ reg = [h \in Handles |-> NoRegs]

\* buffer.rs, Buffer::get: the bucket of a counter, `count & self.mask`
BucketOf(count) == CounterMask(count, Capacity)

\* every Bucket starts with an empty blocker container
BlockersInit ==
    /\ blockers = [b \in 0..(Capacity - 1) |-> <<>>]
    /\ parkedAtDrop = {}

\* extension/blocking.rs, the values of Shared.tristate
BLOCK_SENDERS == 1
BLOCK_NONE == 0
BLOCK_RECEIVERS == -1

\* no function call is set up
NoIn == [op |-> "none"]
NoOut == [op |-> "none"]

\* the components checked on their own are not in use
NoObject ==
    /\ unitObj = NoIn
    /\ unitPc = [h \in Handles |-> "idle"]
    /\ unitReg = [h \in Handles |-> 0]
    /\ unitRet = NoRet
    /\ unitLog = <<>>

UnitInit ==
    /\ fnIn = NoIn
    /\ fnOut = NoOut
    /\ NoObject

\* Blocking::create_triple: two empty handle channels, tristate 0
ExtInit ==
    /\ tristate = BLOCK_NONE
    /\ handleRx = [s \in Sides |-> <<>>]
    /\ rxLock = [s \in Sides |-> NoHandle]
    /\ notifyFor = [h \in Handles |-> "none"]

\* queue/bounded/mod.rs, queue(): the handles are queue::bounded's
QueueInit ==
    /\ facade = "bounded" /\ HeadInit /\ sendQuota = MaxSends
    /\ SchedInit /\ BlockersInit /\ ExtInit /\ UnitInit

\* what no operation on a handle changes: the facade, and the other subsystems
QueueFrame == UNCHANGED <<facade, syncVars, blockVars, extVars, unitVars>>

\* Half::is_closed: the cached flag, else the shared flag (which it then caches)
HalfIsClosed(h) == half[h].closed_cache \/ headIsClosed

\* a call on handle h returns kind k with payload m; its locals go out of scope
Return(h, k, m) ==
    /\ pc' = [pc EXCEPT ![h] = "idle"]
    /\ lastRet' = Ret(h, k, m)
    /\ claimedReg' = [claimedReg EXCEPT ![h] = CounterNew(0)]
    /\ msgReg' = [msgReg EXCEPT ![h] = NoMsg]

\* what follows a claim that found no room: try_send returns BufferFull with the
\* message; queue::bounded's try_recv goes on to is_closed(), channel.rs's returns
\* Err(ReceiveError)
ClaimNone(h) ==
    IF facade = "sync"
    THEN /\ pc' = [pc EXCEPT ![h] = "register"]
         /\ claimedReg' = [claimedReg EXCEPT ![h] = CounterNew(0)]
         /\ UNCHANGED <<lastRet, msgReg>>
    ELSE IF side(h) = "S"
    THEN Return(h, "BufferFull", msgReg[h])
    ELSE IF facade = "channel"
    THEN Return(h, "Empty", NoMsg)
    ELSE /\ pc' = [pc EXCEPT ![h] = "closed_check"]
         /\ claimedReg' = [claimedReg EXCEPT ![h] = CounterNew(0)]
         /\ UNCHANGED <<lastRet, msgReg>>

\* what follows a claim of counter `count`
ClaimSome(h, count) ==
    /\ pc' = [pc EXCEPT ![h] = "interact"]
    /\ claimedReg' = [claimedReg EXCEPT ![h] = count]
    /\ UNCHANGED <<lastRet, msgReg>>

\* Sender::try_send, up to the claim: the is_closed() test
TrySend(h, v) ==
    /\ h \in SenderIds /\ half[h].alive = "live" /\ pc[h] = "idle"
    /\ Len(sendLog) + InFlightSends < MaxSends
    /\ LET msg == [by |-> h, seq |-> SentBy(h) + 1, val |-> v]
       IN  IF HalfIsClosed(h)
           THEN /\ half' = [half EXCEPT ![h].closed_cache = TRUE]
                /\ Return(h, "Closed", msg)
           ELSE /\ pc' = [pc EXCEPT ![h] = "claim"]
                /\ msgReg' = [msgReg EXCEPT ![h] = msg]
                /\ UNCHANGED <<half, lastRet, claimedReg>>
    /\ UNCHANGED <<seqKind, seqCount, seqClaimed, headAmount, headIsClosed, bufBody,
                   sendLog, recvLog>>
    /\ QueueFrame

\* Receiver::try_recv, entry
TryRecv(h) ==
    /\ h \in ReceiverIds /\ half[h].alive = "live" /\ pc[h] = "idle"
    /\ pc' = [pc EXCEPT ![h] = "claim"]
    /\ UNCHANGED <<seqKind, seqCount, seqClaimed, headAmount, headIsClosed, bufBody, half,
                   claimedReg, msgReg, lastRet, sendLog, recvLog>>
    /\ QueueFrame

\* Owned::claim
OwnedClaim(h) ==
    /\ pc[h] = "claim" /\ seqKind[side(h)] = "Owned"
    /\ LET c == half[h]
           limit == IF c.count = c.limit THEN Limit(side(h)) ELSE c.limit
       IN  IF c.count = limit
           THEN /\ half' = [half EXCEPT ![h].limit = limit]
                /\ ClaimNone(h)
           ELSE /\ half' = [half EXCEPT ![h].limit = limit,
                                        ![h].count = CounterAdd(c.count, 1)]
                /\ ClaimSome(h, c.count)
    /\ UNCHANGED <<seqKind, seqCount, seqClaimed, headAmount, headIsClosed, bufBody,
                   sendLog, recvLog>>
    /\ QueueFrame

\* Shared::claim, `self.claimed.incr()?`
SharedClaimIncr(h) ==
    /\ pc[h] = "claim" /\ seqKind[side(h)] = "Shared"
    /\ claimedReg' = [claimedReg EXCEPT ![h] = seqClaimed[side(h)]]
    /\ seqClaimed' = [seqClaimed EXCEPT ![side(h)] = CounterAdd(@, 1)]
    /\ pc' = [pc EXCEPT ![h] = "limit_check"]
    /\ UNCHANGED <<seqKind, seqCount, headAmount, headIsClosed, bufBody, half,
                   msgReg, lastRet, sendLog, recvLog>>
    /\ QueueFrame

\* Shared::claim, the head of the loop: refresh the cached limit, compare
SharedClaimCheck(h) ==
    /\ pc[h] = "limit_check"
    /\ LET claimed == claimedReg[h]
           limit == IF CounterGe(claimed, half[h].limit) THEN Limit(side(h))
                    ELSE half[h].limit
       IN  /\ half' = [half EXCEPT ![h].limit = limit]
           /\ IF CounterGe(claimed, limit)
              THEN /\ pc' = [pc EXCEPT ![h] = "revert"]
                   /\ UNCHANGED <<claimedReg, msgReg, lastRet>>
              ELSE ClaimSome(h, claimed)
    /\ UNCHANGED <<seqKind, seqCount, seqClaimed, headAmount, headIsClosed, bufBody,
                   sendLog, recvLog>>
    /\ QueueFrame

\* a revert that takes back one more than the fetch-add
RevertBelow(claimed) == CounterAdd(claimed, -1)

\* a revert that leaves the fetch-add in place
RevertKeep(claimed) == CounterAdd(claimed, 1)

\* the value Shared::claim's revert stores when its compare-and-swap succeeds
RevertTo(claimed) == claimed

\* Shared::claim, `self.claimed.comp_swap(claimed + 1, claimed, AcqRel)`
SharedClaimRevert(h) ==
    /\ pc[h] = "revert"
    /\ LET claimed == claimedReg[h]
       IN  IF seqClaimed[side(h)] = CounterAdd(claimed, 1)
           THEN /\ seqClaimed' = [seqClaimed EXCEPT ![side(h)] = RevertTo(claimed)]
                /\ ClaimNone(h)
           ELSE /\ pc' = [pc EXCEPT ![h] = "limit_check"]
                /\ UNCHANGED <<seqClaimed, claimedReg, msgReg, lastRet>>
    /\ UNCHANGED <<seqKind, seqCount, headAmount, headIsClosed, bufBody, half,
                   sendLog, recvLog>>
    /\ QueueFrame

\* Half::try_advance, `H::Role::interact(buffer, input)`:
\* the sender writes its message into the slot, the receiver moves the message out
Interact(h) ==
    /\ pc[h] = "interact"
    /\ LET i == SlotOf(claimedReg[h])
       IN  IF side(h) = "S"
           THEN /\ bufBody' = [bufBody EXCEPT ![i] = msgReg[h]]
                /\ msgReg' = msgReg
           ELSE /\ msgReg' = [msgReg EXCEPT ![h] = bufBody[i]]
                /\ bufBody' = [bufBody EXCEPT ![i] = NoMsg]
    /\ pc' = [pc EXCEPT ![h] = "commit"]
    /\ UNCHANGED <<seqKind, seqCount, seqClaimed, headAmount, headIsClosed, half,
                   claimedReg, lastRet, sendLog, recvLog>>
    /\ QueueFrame

\* the return of a call that advanced: Ok(()) to a sender, the message to a receiver
ReturnAdvanced(h) ==
    IF side(h) = "S" THEN Return(h, "Ok", NoMsg) ELSE Return(h, "Some", msgReg[h])

\* after the commit of a successful try_advance: try_send returns Ok(()), try_recv
\* Ok(Some(msg)); channel/half.rs's try_advance! goes on to scheduler.pop_blocked()
Advanced(h) ==
    /\ IF side(h) = "S"
       THEN /\ sendLog' = Append(sendLog, [msg |-> msgReg[h], ctr |-> claimedReg[h]])
            /\ recvLog' = recvLog
       ELSE /\ recvLog' = Append(recvLog, [msg |-> msgReg[h], ctr |-> claimedReg[h]])
            /\ sendLog' = sendLog
    /\ IF facade = "sync"
       THEN /\ pc' = [pc EXCEPT ![h] = "pop_head"]
            /\ UNCHANGED <<lastRet, claimedReg, msgReg>>
       ELSE ReturnAdvanced(h)

\* Owned::commit, `self.count.incr()`
OwnedCommit(h) ==
    /\ pc[h] = "commit" /\ seqKind[side(h)] = "Owned"
    /\ seqCount' = [seqCount EXCEPT ![side(h)] = CounterAdd(@, 1)]
    /\ Advanced(h)
    /\ UNCHANGED <<seqKind, seqClaimed, headAmount, headIsClosed, bufBody, half>>
    /\ QueueFrame

\* a commit that publishes without waiting for its turn
CommitAnyTime(current, count) == TRUE

\* a commit that also goes through when lower counters are not yet published
CommitBehind(current, count) == CounterGe(count, current)

\* Shared::commit: `self.count.comp_swap(count, count + 1, AcqRel)` succeeds when the
\* published count is the committed counter
CommitReady(current, count) == current = count

\* Shared::commit: the compare-and-swap of count from `count` to `count + 1` succeeds
\* only when every lower counter is published; until then the caller spins
SharedCommit(h) ==
    /\ pc[h] = "commit" /\ seqKind[side(h)] = "Shared"
    /\ CommitReady(seqCount[side(h)], claimedReg[h])
    /\ seqCount' = [seqCount EXCEPT ![side(h)] = CounterAdd(claimedReg[h], 1)]
    /\ Advanced(h)
    /\ UNCHANGED <<seqKind, seqClaimed, headAmount, headIsClosed, bufBody, half>>
    /\ QueueFrame

\* Receiver::try_recv after try_advance failed: Ok(None) if is_closed(), else Err
RecvClosedCheck(h) ==
    /\ pc[h] = "closed_check"
    /\ IF HalfIsClosed(h)
       THEN /\ half' = [half EXCEPT ![h].closed_cache = TRUE]
            /\ Return(h, "None", NoMsg)
       ELSE /\ half' = half
            /\ Return(h, "Empty", NoMsg)
    /\ UNCHANGED <<seqKind, seqCount, seqClaimed, headAmount, headIsClosed, bufBody,
                   sendLog, recvLog>>
    /\ QueueFrame

\* Clone for Half (Shared sequences only): count the new handle, give it a fresh cache
HalfClone(h, n) ==
    /\ half[h].alive = "live" /\ pc[h] = "idle"
    /\ seqKind[side(h)] = "Shared"
    /\ n \in Handles /\ side(n) = side(h) /\ half[n].alive = "unborn"
    /\ headAmount' = [headAmount EXCEPT ![side(h)] = @ + 1]
    /\ half' = [half EXCEPT ![n] = [alive |-> "live", count |-> CounterNew(0),
                                    limit |-> Limit(side(h)),
                                    closed_cache |-> half[h].closed_cache]]
    /\ UNCHANGED <<seqKind, seqCount, seqClaimed, headIsClosed, bufBody, pc,
                   claimedReg, msgReg, lastRet, sendLog, recvLog>>
    /\ QueueFrame

\* a drop that never takes itself for the last one
WasLastNever(prev) == FALSE

\* `fetch_sub(1, Release) == 1`: the Half being dropped was the last of its side
WasLast(prev) == prev = 1

\* Drop for Half, `self.head.count().fetch_sub(1, Release) == 1`
HalfDrop(h) ==
    /\ half[h].alive = "live" /\ pc[h] = "idle"
    /\ headAmount' = [headAmount EXCEPT ![side(h)] = @ - 1]
    /\ IF WasLast(headAmount[side(h)])
       THEN /\ pc' = [pc EXCEPT ![h] = "drop_close"]
            /\ half' = half
       ELSE /\ pc' = pc
            /\ half' = [half EXCEPT ![h].alive = "dropped"]
    /\ UNCHANGED <<seqKind, seqCount, seqClaimed, headIsClosed, bufBody,
                   claimedReg, msgReg, lastRet, sendLog, recvLog>>
    /\ QueueFrame

\* Drop for Half, the last handle of its side: `self.close()`
HalfDropClose(h) ==
    /\ pc[h] = "drop_close"
    /\ pc' = [pc EXCEPT ![h] = "idle"]
    /\ half' = [half EXCEPT ![h].alive = "dropped", ![h].closed_cache = TRUE]
    /\ headIsClosed' = (headIsClosed \/ ~half[h].closed_cache)
    /\ UNCHANGED <<seqKind, seqCount, seqClaimed, headAmount, bufBody,
                   claimedReg, msgReg, lastRet, sendLog, recvLog>>
    /\ QueueFrame

QueueNext ==
    \/ \E h \in SenderIds, v \in Msgs : TrySend(h, v)
    \/ \E h \in ReceiverIds : TryRecv(h)
    \/ \E h \in Handles : OwnedClaim(h)
    \/ \E h \in Handles : SharedClaimIncr(h)
    \/ \E h \in Handles : SharedClaimCheck(h)
    \/ \E h \in Handles : SharedClaimRevert(h)
    \/ \E h \in Handles : Interact(h)
    \/ \E h \in Handles : OwnedCommit(h)
    \/ \E h \in Handles : SharedCommit(h)
    \/ \E h \in ReceiverIds : RecvClosedCheck(h)
    \/ \E h, n \in Handles : HalfClone(h, n)
    \/ \E h \in Handles : HalfDrop(h)
    \/ \E h \in Handles : HalfDropClose(h)

Init == QueueInit
Next == QueueNext
Spec == Init /\ [][Next]_vars

(***************************************************************************)
(* channel.rs: Sender and Receiver over the same Head and sequences.       *)
(***************************************************************************)
\* channel(): is_closed false, sender_count 1, receiver_count 1
ChannelInit ==
    /\ facade = "channel" /\ HeadInit /\ sendQuota = MaxSends
    /\ SchedInit /\ BlockersInit /\ ExtInit /\ UnitInit

\* Sender::try_send up to the claim: `head.is_closed.load()`
ChanTrySend(h, v) ==
    /\ h \in SenderIds /\ half[h].alive = "live" /\ pc[h] = "idle"
    /\ Len(sendLog) + InFlightSends < MaxSends
    /\ LET msg == [by |-> h, seq |-> SentBy(h) + 1, val |-> v]
       IN  IF headIsClosed
           THEN Return(h, "ReceiverAllClosed", msg)
           ELSE /\ pc' = [pc EXCEPT ![h] = "claim"]
                /\ msgReg' = [msgReg EXCEPT ![h] = msg]
                /\ UNCHANGED <<lastRet, claimedReg>>
    /\ UNCHANGED <<seqKind, seqCount, seqClaimed, headAmount, headIsClosed, bufBody, half,
                   sendLog, recvLog>>
    /\ QueueFrame

\* Receiver::try_recv up to the claim: `head.sender_count.load() == 0` returns Ok(None)
ChanTryRecv(h) ==
    /\ h \in ReceiverIds /\ half[h].alive = "live" /\ pc[h] = "idle"
    /\ IF headAmount["S"] = 0
       THEN Return(h, "None", NoMsg)
       ELSE /\ pc' = [pc EXCEPT ![h] = "claim"]
            /\ UNCHANGED <<lastRet, claimedReg, msgReg>>
    /\ UNCHANGED <<seqKind, seqCount, seqClaimed, headAmount, headIsClosed, bufBody, half,
                   sendLog, recvLog>>
    /\ QueueFrame

\* Receiver::close: `is_closed.store(true)`
ChanClose(h) ==
    /\ h \in ReceiverIds /\ half[h].alive = "live" /\ pc[h] = "idle"
    /\ headIsClosed' = TRUE
    /\ UNCHANGED <<seqKind, seqCount, seqClaimed, headAmount, bufBody, half, pc,
                   claimedReg, msgReg, lastRet, sendLog, recvLog>>
    /\ QueueFrame

\* Clone for Sender<Shared, ..> / Receiver<.., Shared>: fetch_add, copy of the cache
ChanClone(h, n) ==
    /\ half[h].alive = "live" /\ pc[h] = "idle"
    /\ seqKind[side(h)] = "Shared"
    /\ n \in Handles /\ side(n) = side(h) /\ half[n].alive = "unborn"
    /\ headAmount' = [headAmount EXCEPT ![side(h)] = @ + 1]
    /\ half' = [half EXCEPT ![n] = half[h]]
    /\ UNCHANGED <<seqKind, seqCount, seqClaimed, headIsClosed, bufBody, pc,
                   claimedReg, msgReg, lastRet, sendLog, recvLog>>
    /\ QueueFrame

\* Drop for Sender: `sender_count.fetch_sub(1)`
ChanSenderDrop(h) ==
    /\ h \in SenderIds /\ half[h].alive = "live" /\ pc[h] = "idle"
    /\ headAmount' = [headAmount EXCEPT !["S"] = @ - 1]
    /\ half' = [half EXCEPT ![h].alive = "dropped"]
    /\ UNCHANGED <<seqKind, seqCount, seqClaimed, headIsClosed, bufBody, pc,
                   claimedReg, msgReg, lastRet, sendLog, recvLog>>
    /\ QueueFrame

\* Drop for Receiver: `remain_count = receiver_count.fetch_sub(1)`
ChanReceiverDrop(h) ==
    /\ h \in ReceiverIds /\ half[h].alive = "live" /\ pc[h] = "idle"
    /\ headAmount' = [headAmount EXCEPT !["R"] = @ - 1]
    /\ IF headAmount["R"] = 1
       THEN /\ pc' = [pc EXCEPT ![h] = "drop_store"]
            /\ half' = half
       ELSE /\ pc' = pc
            /\ half' = [half EXCEPT ![h].alive = "dropped"]
    /\ UNCHANGED <<seqKind, seqCount, seqClaimed, headIsClosed, bufBody,
                   claimedReg, msgReg, lastRet, sendLog, recvLog>>
    /\ QueueFrame

\* Drop for Receiver, `remain_count == 1`: `is_closed.store(false)`
ChanReceiverDropStore(h) ==
    /\ pc[h] = "drop_store"
    /\ pc' = [pc EXCEPT ![h] = "idle"]
    /\ half' = [half EXCEPT ![h].alive = "dropped"]
    /\ headIsClosed' = FALSE
    /\ UNCHANGED <<seqKind, seqCount, seqClaimed, headAmount, bufBody,
                   claimedReg, msgReg, lastRet, sendLog, recvLog>>
    /\ QueueFrame

ChannelNext ==
    \/ \E h \in SenderIds, v \in Msgs : ChanTrySend(h, v)
    \/ \E h \in ReceiverIds : ChanTryRecv(h)
    \/ \E h \in Handles : OwnedClaim(h)
    \/ \E h \in Handles : SharedClaimIncr(h)
    \/ \E h \in Handles : SharedClaimCheck(h)
    \/ \E h \in Handles : SharedClaimRevert(h)
    \/ \E h \in Handles : Interact(h)
    \/ \E h \in Handles : OwnedCommit(h)
    \/ \E h \in Handles : SharedCommit(h)
    \/ \E h \in ReceiverIds : ChanClose(h)
    \/ \E h, n \in Handles : ChanClone(h, n)
    \/ \E h \in SenderIds : ChanSenderDrop(h)
    \/ \E h \in ReceiverIds : ChanReceiverDrop(h)
    \/ \E h \in ReceiverIds : ChanReceiverDropStore(h)

SpecChannel == ChannelInit /\ [][ChannelNext]_vars

(***************************************************************************)
(* Blocking send / recv: channel/half.rs sync_advance over the scheduler   *)
(* (scheduler/mod.rs) and its waiter queue (scheduler/queue.rs).           *)
(***************************************************************************)
\* Role::counterpart
Counterpart(role) == IF role = "S" THEN "R" ELSE "S"

\* recv calls that are running
InFlightRecvs == Cardinality({h \in ReceiverIds : pc[h] # "idle"})

\* one bounded SPSC channel, empty; the sender thread will send sendQuota messages
SyncInit ==
    /\ facade = "sync"
    /\ HeadInit
    /\ seqKind = [s \in Sides |-> "Owned"]
    /\ sendQuota \in 1..MaxSends
    /\ SchedInit /\ BlockersInit /\ ExtInit /\ UnitInit

\* variables a step of thread h inside the scheduler leaves alone
SchedFrame ==
    UNCHANGED <<facade, seqKind, seqCount, seqClaimed, headAmount, headIsClosed, bufBody,
                half, claimedReg, sendLog, recvLog, sendQuota, blockVars, extVars,
                unitVars>>

\* a panic (a failed expect / unwrap) ends the thread
Panic(h) ==
    /\ pc' = [pc EXCEPT ![h] = "panicked"]
    /\ reg' = [reg EXCEPT ![h] = NoRegs]

\* Sender::send -> Half::sync_advance(msg): enter the loop
SyncSend(h, v) ==
    /\ h \in SenderIds /\ half[h].alive = "live" /\ pc[h] = "idle"
    /\ Len(sendLog) + InFlightSends < sendQuota
    /\ pc' = [pc EXCEPT ![h] = "claim"]
    /\ msgReg' = [msgReg EXCEPT ![h] = [by |-> h, seq |-> SentBy(h) + 1, val |-> v]]
    /\ UNCHANGED <<lastRet, syncVars>>
    /\ SchedFrame

\* Receiver::recv -> Half::sync_advance(()): enter the loop
SyncRecv(h) ==
    /\ h \in ReceiverIds /\ half[h].alive = "live" /\ pc[h] = "idle"
    /\ Len(recvLog) + InFlightRecvs < sendQuota
    /\ pc' = [pc EXCEPT ![h] = "claim"]
    /\ UNCHANGED <<msgReg, lastRet, syncVars>>
    /\ SchedFrame

\* Scheduler::register up to the push: store the Notify, take the node, Node::init
SchedRegister(h) ==
    /\ pc[h] = "register"
    /\ IF schedNode[h] = NoNode
       THEN /\ Panic(h)
            /\ UNCHANGED <<wqNode, schedNode, schedNotify>>
       ELSE /\ wqNode' = [wqNode EXCEPT ![schedNode[h]].role = side(h),
                                        ![schedNode[h]].handle = h]
            /\ schedNode' = [schedNode EXCEPT ![h] = NoNode]
            /\ schedNotify' = [schedNotify EXCEPT ![h] = TRUE]
            /\ reg' = [reg EXCEPT ![h] = [NoRegs EXCEPT !.node = schedNode[h]]]
            /\ pc' = [pc EXCEPT ![h] = "push_head"]
    /\ UNCHANGED <<wqHead, wqTail, parkToken, msgReg, lastRet>>
    /\ SchedFrame

\* Queue::push returns Err(node): register hands the node back to the Handle and
\* returns false, and sync_advance tries again
PushRefused(h) ==
    /\ wqNode' = [wqNode EXCEPT ![reg[h].node].handle = NoHandle]
    /\ schedNode' = [schedNode EXCEPT ![h] = reg[h].node]
    /\ reg' = [reg EXCEPT ![h] = NoRegs]
    /\ pc' = [pc EXCEPT ![h] = "claim"]

\* Queue::push, `let head = self.head.load(Acquire)`
PushLoadHead(h) ==
    /\ pc[h] = "push_head"
    /\ reg' = [reg EXCEPT ![h].head = wqHead]
    /\ pc' = [pc EXCEPT ![h] = "push_tail"]
    /\ UNCHANGED <<wqHead, wqTail, wqNode, schedNode, schedNotify, parkToken, msgReg, lastRet>>
    /\ SchedFrame

\* a push that takes any tail
TailAccepts(head, tail, tail_role, role) == FALSE

\* the test Queue::push makes on the tail it loaded
TailRefuses(head, tail, tail_role, role) == head # tail /\ tail_role # role

\* Queue::push, `let tail = self.tail.load(Acquire)` and the role test on it
PushLoadTail(h) ==
    /\ pc[h] = "push_tail"
    /\ IF TailRefuses(reg[h].head, wqTail, wqNode[wqTail.node].role, side(h))
       THEN PushRefused(h)
       ELSE /\ reg' = [reg EXCEPT ![h].tail = wqTail]
            /\ pc' = [pc EXCEPT ![h] = "push_next"]
            /\ UNCHANGED <<wqNode, schedNode>>
    /\ UNCHANGED <<wqHead, wqTail, schedNotify, parkToken, msgReg, lastRet>>
    /\ SchedFrame

\* Queue::push, `let next = tail_ref.next.load(Acquire)` and the match on it
PushLoadNext(h) ==
    /\ pc[h] = "push_next"
    /\ LET next == wqNode[reg[h].tail.node].next
       IN  IF next = NullPtr
           THEN /\ pc' = [pc EXCEPT ![h] = "push_link"]
                /\ UNCHANGED <<reg, wqNode, schedNode>>
           ELSE IF wqNode[next.node].role # side(h)
           THEN PushRefused(h)
           ELSE /\ reg' = [reg EXCEPT ![h].next = next]
                /\ pc' = [pc EXCEPT ![h] = "push_help"]
                /\ UNCHANGED <<wqNode, schedNode>>
    /\ UNCHANGED <<wqHead, wqTail, schedNotify, parkToken, msgReg, lastRet>>
    /\ SchedFrame

\* Queue::push, `self.tail.cas(tail, next, Release)`: help the tail forward, retry
PushHelp(h) ==
    /\ pc[h] = "push_help"
    /\ wqTail' = IF wqTail = reg[h].tail THEN reg[h].next ELSE wqTail
    /\ reg' = [reg EXCEPT ![h] = [NoRegs EXCEPT !.node = reg[h].node]]
    /\ pc' = [pc EXCEPT ![h] = "push_head"]
    /\ UNCHANGED <<wqHead, wqNode, schedNode, schedNotify, parkToken, msgReg, lastRet>>
    /\ SchedFrame

\* Queue::push, `tail_ref.next.cas(Ptr::null(), node, Release)`
PushLink(h) ==
    /\ pc[h] = "push_link"
    /\ IF wqNode[reg[h].tail.node].next = NullPtr
       THEN /\ wqNode' = [wqNode EXCEPT ![reg[h].tail.node].next = MkPtr(reg[h].node, 1)]
            /\ pc' = [pc EXCEPT ![h] = "push_swing"]
            /\ reg' = reg
       ELSE /\ wqNode' = wqNode
            /\ pc' = [pc EXCEPT ![h] = "push_head"]
            /\ reg' = [reg EXCEPT ![h] = [NoRegs EXCEPT !.node = reg[h].node]]
    /\ UNCHANGED <<wqHead, wqTail, schedNode, schedNotify, parkToken, msgReg, lastRet>>
    /\ SchedFrame

\* Queue::push, `self.tail.cas(tail, node, Release)`; push returns Ok(()), register true
PushSwing(h) ==
    /\ pc[h] = "push_swing"
    /\ wqTail' = IF wqTail = reg[h].tail THEN MkPtr(reg[h].node, 1) ELSE wqTail
    /\ reg' = [reg EXCEPT ![h] = NoRegs]
    /\ pc' = [pc EXCEPT ![h] = "park"]
    /\ UNCHANGED <<wqHead, wqNode, schedNode, schedNotify, parkToken, msgReg, lastRet>>
    /\ SchedFrame

\* thread::park(): returns once an unpark token is there, and consumes it
Park(h) ==
    /\ pc[h] = "park"
    /\ parkToken[h]
    /\ parkToken' = [parkToken EXCEPT ![h] = FALSE]
    /\ pc' = [pc EXCEPT ![h] = "restore"]
    /\ UNCHANGED <<wqHead, wqTail, wqNode, schedNode, schedNotify, reg, msgReg, lastRet>>
    /\ SchedFrame

\* Scheduler::restore: take the Handle back; sync_advance loops to the next try
SchedRestore(h) ==
    /\ pc[h] = "restore"
    /\ pc' = [pc EXCEPT ![h] = "claim"]
    /\ UNCHANGED <<msgReg, lastRet, syncVars>>
    /\ SchedFrame

\* Queue::pop, `let head = self.head.load(Acquire)`
PopLoadHead(h) ==
    /\ pc[h] = "pop_head"
    /\ reg' = [reg EXCEPT ![h].head = wqHead]
    /\ pc' = [pc EXCEPT ![h] = "pop_next"]
    /\ UNCHANGED <<wqHead, wqTail, wqNode, schedNode, schedNotify, parkToken, msgReg, lastRet>>
    /\ SchedFrame

\* Queue::pop, `head.next.load(Acquire)`: None when there is no node after the head or
\* its role is not the one asked for; then pop_blocked and sync_advance return
PopLoadNext(h) ==
    /\ pc[h] = "pop_next"
    /\ LET next == wqNode[reg[h].head.node].next
       IN  IF next = NullPtr \/ wqNode[next.node].role # Counterpart(side(h))
           THEN /\ ReturnAdvanced(h)
                /\ reg' = [reg EXCEPT ![h] = NoRegs]
           ELSE /\ reg' = [reg EXCEPT ![h].next = next]
                /\ pc' = [pc EXCEPT ![h] = "pop_cas"]
                /\ UNCHANGED <<msgReg, lastRet, claimedReg>>
    /\ UNCHANGED <<wqHead, wqTail, wqNode, schedNode, schedNotify, parkToken>>
    /\ UNCHANGED <<facade, seqKind, seqCount, seqClaimed, headAmount, headIsClosed, bufBody,
                   half, sendLog, recvLog, sendQuota, blockVars, extVars,
                unitVars>>

\* Queue::pop, `self.head.cas(head, next, Release)`: the old head is handed out carrying
\* the handle of `next`; pop_blocked takes that handle and gives it the node
PopCas(h) ==
    /\ pc[h] = "pop_cas"
    /\ IF wqHead = reg[h].head
       THEN LET res == reg[h].head.node
                waiter == wqNode[reg[h].next.node].handle
            IN  IF waiter = NoHandle
                THEN /\ wqHead' = reg[h].next
                     /\ Panic(h)
                     /\ UNCHANGED <<wqNode, schedNode>>
                ELSE /\ wqHead' = reg[h].next
                     /\ wqNode' = [wqNode EXCEPT ![res].handle = NoHandle]
                     /\ schedNode' = [schedNode EXCEPT ![waiter] = res]
                     /\ reg' = [reg EXCEPT ![h] = [NoRegs EXCEPT !.node = waiter]]
                     /\ pc' = [pc EXCEPT ![h] = "notify"]
       ELSE /\ reg' = [reg EXCEPT ![h] = NoRegs]
            /\ pc' = [pc EXCEPT ![h] = "pop_head"]
            /\ UNCHANGED <<wqHead, wqNode, schedNode>>
    /\ UNCHANGED <<wqTail, schedNotify, parkToken, msgReg, lastRet>>
    /\ SchedFrame

\* Scheduler::pop_blocked, `handle.notify.take().unwrap().notify()`: unpark the waiter;
\* then try_advance! and sync_advance return
PopNotify(h) ==
    /\ pc[h] = "notify"
    /\ IF schedNotify[reg[h].node]
       THEN /\ schedNotify' = [schedNotify EXCEPT ![reg[h].node] = FALSE]
            /\ parkToken' = [parkToken EXCEPT ![reg[h].node] = TRUE]
            /\ ReturnAdvanced(h)
            /\ reg' = [reg EXCEPT ![h] = NoRegs]
       ELSE /\ Panic(h)
            /\ UNCHANGED <<schedNotify, parkToken, msgReg, lastRet, claimedReg>>
    /\ UNCHANGED <<wqHead, wqTail, wqNode, schedNode>>
    /\ UNCHANGED <<facade, seqKind, seqCount, seqClaimed, headAmount, headIsClosed, bufBody,
                   half, sendLog, recvLog, sendQuota, blockVars, extVars,
                unitVars>>

SyncNext ==
    \/ \E h \in SenderIds, v \in Msgs : SyncSend(h, v)
    \/ \E h \in ReceiverIds : SyncRecv(h)
    \/ \E h \in Handles : OwnedClaim(h)
    \/ \E h \in Handles : Interact(h)
    \/ \E h \in Handles : OwnedCommit(h)
    \/ \E h \in Handles : SchedRegister(h)
    \/ \E h \in Handles : PushLoadHead(h)
    \/ \E h \in Handles : PushLoadTail(h)
    \/ \E h \in Handles : PushLoadNext(h)
    \/ \E h \in Handles : PushHelp(h)
    \/ \E h \in Handles : PushLink(h)
    \/ \E h \in Handles : PushSwing(h)
    \/ \E h \in Handles : Park(h)
    \/ \E h \in Handles : SchedRestore(h)
    \/ \E h \in Handles : PopLoadHead(h)
    \/ \E h \in Handles : PopLoadNext(h)
    \/ \E h \in Handles : PopCas(h)
    \/ \E h \in Handles : PopNotify(h)

SpecSync == SyncInit /\ [][SyncNext]_vars

(***************************************************************************)
(* queue/half.rs: the blocking receive of a Half whose sequence is         *)
(* Preemptive (sequence/preemptive.rs). A receiver that finds no message   *)
(* pushes its Blocker on the bucket of the counter it claimed              *)
(* (sequence/mod.rs) and parks; Slot::get / Slot::set notify one Blocker   *)
(* of their bucket; the drop of the last sender Half closes and notifies   *)
(* all.                                                                    *)
(***************************************************************************)
\* the one sender Half of the run
BlockSender == FirstHandle("S")

\* queue(): one sender Half, the receiver Half and its clones, every cache at 0
BlockInit ==
    /\ facade = "queue"
    /\ seqKind = [s \in Sides |-> "Preemptive"]
    /\ seqCount = [s \in Sides |-> CounterNew(0)]
    /\ seqClaimed = [s \in Sides |-> CounterNew(0)]
    /\ headAmount = [s \in Sides |-> IF s = "S" THEN 1 ELSE NReceivers]
    /\ headIsClosed = FALSE
    /\ bufBody = [i \in 0..(Capacity - 1) |-> NoMsg]
    /\ half = [h \in Handles |->
                 [alive |-> IF h = BlockSender \/ h \in ReceiverIds THEN "live" ELSE "unborn",
                  count |-> CounterNew(0), limit |-> CounterNew(0),
                  closed_cache |-> FALSE]]
    /\ pc = [h \in Handles |-> "idle"]
    /\ claimedReg = [h \in Handles |-> CounterNew(0)]
    /\ msgReg = [h \in Handles |-> NoMsg]
    /\ lastRet = NoRet
    /\ sendLog = <<>>
    /\ recvLog = <<>>
    /\ sendQuota = MaxSends
    /\ SchedInit /\ BlockersInit /\ ExtInit /\ UnitInit

\* what no step of a Half changes
BlockFrame ==
    UNCHANGED <<facade, seqKind, bufBody, msgReg, sendLog, recvLog, sendQuota, wqHead, wqTail,
                wqNode, schedNode, schedNotify, reg, extVars, unitVars>>

\* a call of thread h returns kind k; its locals go out of scope
BlockReturn(h, k) ==
    /\ pc' = [pc EXCEPT ![h] = "idle"]
    /\ lastRet' = Ret(h, k, NoMsg)
    /\ claimedReg' = [claimedReg EXCEPT ![h] = CounterNew(0)]
    /\ parkedAtDrop' = parkedAtDrop \ {h}

\* Half::sync_advance of a receiver: `*self.block_kind = BlockKind::Sync(thread::current())`
HalfSyncAdvance(h) ==
    /\ h \in ReceiverIds /\ half[h].alive = "live" /\ pc[h] = "idle"
    /\ CounterLt(seqClaimed["R"], CounterNew(MaxSends))
    /\ pc' = [pc EXCEPT ![h] = "claim"]
    /\ UNCHANGED <<seqCount, seqClaimed, headAmount, headIsClosed, half, claimedReg, lastRet,
                   parkToken, blockVars>>
    /\ BlockFrame

\* Preemptive::claim, `let claimed = self.claimed.incr(1)`
PreemptiveClaim(h) ==
    /\ pc[h] = "claim"
    /\ seqClaimed' = [seqClaimed EXCEPT !["R"] = CounterAdd(@, 1)]
    /\ claimedReg' = [claimedReg EXCEPT ![h] = seqClaimed["R"]]
    /\ pc' = [pc EXCEPT ![h] = "claim_limit"]
    /\ UNCHANGED <<seqCount, headAmount, headIsClosed, half, lastRet, parkToken, blockVars>>
    /\ BlockFrame

\* Preemptive::claim, the rest: refresh cache.limit from Limit::count() (the senders'
\* count) when it does not cover `claimed`; Err(claimed) if it still does not
PreemptiveClaimLimit(h) ==
    /\ pc[h] = "claim_limit"
    /\ LET claimed == claimedReg[h]
           limit == IF CounterGe(claimed, half[h].limit) THEN seqCount["S"] ELSE half[h].limit
       IN  /\ half' = [half EXCEPT ![h].limit = limit]
           /\ pc' = [pc EXCEPT ![h] = IF CounterGe(claimed, limit) THEN "push" ELSE "slot"]
    /\ UNCHANGED <<seqCount, seqClaimed, headAmount, headIsClosed, claimedReg, lastRet,
                   parkToken, blockVars>>
    /\ BlockFrame

\* Sequence::advance, Err(count): `bucket.blockers.push(blocker.clone())`;
\* BlockerStack::push puts the Blocker on top
AdvancePush(h) ==
    /\ pc[h] = "push"
    /\ blockers' = [blockers EXCEPT ![BucketOf(claimedReg[h])] = <<h>> \o @]
    /\ pc' = [pc EXCEPT ![h] = "unwrap"]
    /\ UNCHANGED <<seqCount, seqClaimed, headAmount, headIsClosed, half, claimedReg, lastRet,
                   parkToken, parkedAtDrop>>
    /\ BlockFrame

\* sync_advance, `try_slot.try_unwrap()`: the Slot once TrySlot::check() holds
\* (`self.limit.count() > self.slot.count`), else the TrySlot again and thread::park()
TrySlotUnwrap(h) ==
    /\ pc[h] = "unwrap"
    /\ pc' = [pc EXCEPT ![h] = IF CounterLt(claimedReg[h], seqCount["S"]) THEN "slot" ELSE "park"]
    /\ UNCHANGED <<seqCount, seqClaimed, headAmount, headIsClosed, half, claimedReg, lastRet,
                   parkToken, blockVars>>
    /\ BlockFrame

\* thread::park() returns once an unpark token is there, and consumes it
HalfPark(h) ==
    /\ pc[h] = "park"
    /\ parkToken[h]
    /\ parkToken' = [parkToken EXCEPT ![h] = FALSE]
    /\ pc' = [pc EXCEPT ![h] = "is_closed"]
    /\ UNCHANGED <<seqCount, seqClaimed, headAmount, headIsClosed, half, claimedReg, lastRet,
                   blockVars>>
    /\ BlockFrame

\* sync_advance, `if is_closed!(self) { return None; }`, else the loop goes on
HalfIsClosedCheck(h) ==
    /\ pc[h] = "is_closed"
    /\ IF HalfIsClosed(h)
       THEN /\ half' = [half EXCEPT ![h].closed_cache = TRUE]
            /\ BlockReturn(h, "None")
       ELSE /\ pc' = [pc EXCEPT ![h] = "unwrap"]
            /\ UNCHANGED <<half, claimedReg, lastRet, parkedAtDrop>>
    /\ UNCHANGED <<seqCount, seqClaimed, headAmount, headIsClosed, parkToken, blockers>>
    /\ BlockFrame

\* Half::try_advance of the sender: Preemptive::try_claim against the receivers' count
\* plus the capacity (Limit for SenderHead); None when the ring is full
HalfTryAdvance(h) ==
    /\ h = BlockSender /\ half[h].alive = "live" /\ pc[h] = "idle"
    /\ CounterLt(seqCount["S"], CounterNew(MaxSends))
    /\ LET claimed == seqClaimed["S"]
           limit == IF CounterGe(claimed, half[h].limit)
                    THEN CounterAdd(seqCount["R"], Capacity) ELSE half[h].limit
       IN  /\ half' = [half EXCEPT ![h].limit = limit]
           /\ IF CounterGe(claimed, limit)
              THEN /\ BlockReturn(h, "BufferFull")
                   /\ UNCHANGED seqClaimed
              ELSE /\ seqClaimed' = [seqClaimed EXCEPT !["S"] = CounterAdd(claimed, 1)]
                   /\ claimedReg' = [claimedReg EXCEPT ![h] = claimed]
                   /\ pc' = [pc EXCEPT ![h] = "slot"]
                   /\ UNCHANGED <<lastRet, parkedAtDrop>>
    /\ UNCHANGED <<seqCount, headAmount, headIsClosed, parkToken, blockers>>
    /\ BlockFrame

\* Slot::get / Slot::set up to the notify: the bucket is read / written and
\* Preemptive::commit spins until count equals the claimed counter, then adds one
SlotCommit(h) ==
    /\ pc[h] = "slot"
    /\ seqCount[side(h)] = claimedReg[h]
    /\ seqCount' = [seqCount EXCEPT ![side(h)] = CounterAdd(@, 1)]
    /\ pc' = [pc EXCEPT ![h] = "notify"]
    /\ UNCHANGED <<seqClaimed, headAmount, headIsClosed, half, claimedReg, lastRet, parkToken,
                   blockVars>>
    /\ BlockFrame

\* Slot::get / Slot::set, `self.bucket.notify()`: Bucket::notify pops one Blocker of
\* the bucket, if any, and unblocks it (Blocker::unblock: thread.unpark())
BucketNotify(h) ==
    /\ pc[h] = "notify"
    /\ LET b == BucketOf(claimedReg[h])
       IN  IF blockers[b] = <<>>
           THEN UNCHANGED <<blockers, parkToken>>
           ELSE /\ blockers' = [blockers EXCEPT ![b] = Tail(@)]
                /\ parkToken' = [parkToken EXCEPT ![Head(blockers[b])] = TRUE]
    /\ BlockReturn(h, IF side(h) = "S" THEN "Ok" ELSE "Some")
    /\ UNCHANGED <<seqCount, seqClaimed, headAmount, headIsClosed, half>>
    /\ BlockFrame

\* Drop for Half, the last sender: `amount().fetch_sub(1) == 1`
HalfDropLast(h) ==
    /\ h = BlockSender /\ half[h].alive = "live" /\ pc[h] = "idle"
    /\ headAmount["S"] = 1
    /\ headAmount' = [headAmount EXCEPT !["S"] = 0]
    /\ half' = [half EXCEPT ![h].alive = "dropped"]
    /\ pc' = [pc EXCEPT ![h] = "drop_close"]
    /\ parkedAtDrop' = {r \in ReceiverIds : pc[r] = "park" /\ ~parkToken[r]}
    /\ UNCHANGED <<seqCount, seqClaimed, headIsClosed, claimedReg, lastRet, parkToken,
                   blockers>>
    /\ BlockFrame

\* Drop for Half, `self.close()`: Head.is_closed.store(true)
HalfDropCloseStore(h) ==
    /\ pc[h] = "drop_close"
    /\ headIsClosed' = TRUE
    /\ half' = [half EXCEPT ![h].closed_cache = TRUE]
    /\ pc' = [pc EXCEPT ![h] = "notify_all"]
    /\ UNCHANGED <<seqCount, seqClaimed, headAmount, claimedReg, lastRet, parkToken,
                   blockVars>>
    /\ BlockFrame

\* Drop for Half, `self.buf.notify_all()`: pops and notifies every waiter queued on
\* the buckets, one at a time; the drop ends when every bucket is empty
BufNotifyAll(h) ==
    /\ pc[h] = "notify_all"
    /\ LET queued == {b \in DOMAIN blockers : blockers[b] # <<>>}
       IN  IF queued = {}
           THEN /\ pc' = [pc EXCEPT ![h] = "idle"]
                /\ UNCHANGED <<blockers, parkToken>>
           ELSE LET b == CHOOSE x \in queued : \A y \in queued : x <= y
                IN  /\ blockers' = [blockers EXCEPT ![b] = Tail(@)]
                    /\ parkToken' = [parkToken EXCEPT ![Head(blockers[b])] = TRUE]
                    /\ UNCHANGED pc
    /\ UNCHANGED <<seqCount, seqClaimed, headAmount, headIsClosed, half, claimedReg, lastRet,
                   parkedAtDrop>>
    /\ BlockFrame

BlockNext ==
    \E h \in Handles :
        \/ HalfSyncAdvance(h)
        \/ PreemptiveClaim(h)
        \/ PreemptiveClaimLimit(h)
        \/ AdvancePush(h)
        \/ TrySlotUnwrap(h)
        \/ HalfPark(h)
        \/ HalfIsClosedCheck(h)
        \/ HalfTryAdvance(h)
        \/ SlotCommit(h)
        \/ BucketNotify(h)
        \/ HalfDropLast(h)
        \/ HalfDropCloseStore(h)
        \/ BufNotifyAll(h)

SpecBlock == BlockInit /\ [][BlockNext]_vars

(***************************************************************************)
(* extension/blocking.rs: blocking send / recv over queue::Sender and      *)
(* queue::Receiver (queue/sender.rs, queue/receiver.rs). A thread that     *)
(* finds the ring full / empty marks its side blocked in Shared.tristate,  *)
(* sends its thread handle down its side's channel and parks; the other    *)
(* side unparks the handles it finds there.                                *)
(***************************************************************************)
\* BLOCK_SENDERS / BLOCK_RECEIVERS: the tristate value that marks side s blocked
BlockOf(s) == IF s = "S" THEN BLOCK_SENDERS ELSE BLOCK_RECEIVERS

\* queue::channel::<Owned, Owned, Blocking, _>(capacity)
BlockingInit ==
    /\ facade = "extension"
    /\ HeadInit
    /\ seqKind = [s \in Sides |-> "Owned"]
    /\ sendQuota = MaxSends
    /\ SchedInit /\ BlockersInit /\ ExtInit /\ UnitInit

\* what no step of a blocking send / recv changes
BlockingFrame ==
    UNCHANGED <<facade, seqKind, seqClaimed, headIsClosed, bufBody, claimedReg, msgReg, sendLog,
                recvLog, sendQuota, wqHead, wqTail, wqNode, schedNode, schedNotify, reg,
                blockVars, unitVars>>

\* send / recv of thread h returns kind k
BlockingReturn(h, k) ==
    /\ pc' = [pc EXCEPT ![h] = "idle"]
    /\ lastRet' = Ret(h, k, NoMsg)
    /\ notifyFor' = [notifyFor EXCEPT ![h] = "none"]

\* Sender::send / Receiver::recv: enter the loop
BlockingCall(h) ==
    /\ half[h].alive = "live" /\ pc[h] = "idle"
    /\ side(h) = "S" => CounterLt(seqCount["S"], CounterNew(MaxSends))
    /\ pc' = [pc EXCEPT ![h] = "try"]
    /\ UNCHANGED <<seqCount, headAmount, half, lastRet, parkToken, extVars>>
    /\ BlockingFrame

\* send, `self.try_send(msg)` (queue/sender.rs): closed -> Err; room -> set, commit,
\* and send goes on to notify_receivers; full -> the tristate CAS
BlockingTrySend(h) ==
    /\ h \in SenderIds /\ pc[h] = "try"
    /\ IF headIsClosed
       THEN /\ BlockingReturn(h, "ReceiverAllClosed")
            /\ UNCHANGED seqCount
       ELSE IF CounterLt(seqCount["S"], CounterAdd(seqCount["R"], Capacity))
       THEN /\ seqCount' = [seqCount EXCEPT !["S"] = CounterAdd(@, 1)]
            /\ notifyFor' = [notifyFor EXCEPT ![h] = "Ok"]
            /\ pc' = [pc EXCEPT ![h] = "notify_lock"]
            /\ UNCHANGED lastRet
       ELSE /\ pc' = [pc EXCEPT ![h] = "cas"]
            /\ UNCHANGED <<seqCount, lastRet, notifyFor>>
    /\ UNCHANGED <<headAmount, half, parkToken, tristate, handleRx, rxLock>>
    /\ BlockingFrame

\* recv, `self.try_recv()` (queue/receiver.rs), the claim: a message -> take, commit,
\* and recv goes on to notify_senders; none -> is_closed()
BlockingTryRecv(h) ==
    /\ h \in ReceiverIds /\ pc[h] = "try"
    /\ IF CounterLt(seqCount["R"], seqCount["S"])
       THEN /\ seqCount' = [seqCount EXCEPT !["R"] = CounterAdd(@, 1)]
            /\ notifyFor' = [notifyFor EXCEPT ![h] = "Some"]
            /\ pc' = [pc EXCEPT ![h] = "notify_lock"]
       ELSE /\ pc' = [pc EXCEPT ![h] = "is_closed"]
            /\ UNCHANGED <<seqCount, notifyFor>>
    /\ UNCHANGED <<headAmount, half, lastRet, parkToken, tristate, handleRx, rxLock>>
    /\ BlockingFrame

\* try_recv, `if self.is_closed()`: Ok(None), after which recv notifies the senders and
\* returns None; else Err(ReceiveError) and recv goes to the tristate CAS
ReceiverIsClosed(h) ==
    /\ pc[h] = "is_closed"
    /\ IF half[h].closed_cache \/ headIsClosed \/ headAmount["S"] = 0
       THEN /\ half' = [half EXCEPT ![h].closed_cache = TRUE]
            /\ notifyFor' = [notifyFor EXCEPT ![h] = "None"]
            /\ pc' = [pc EXCEPT ![h] = "notify_lock"]
       ELSE /\ pc' = [pc EXCEPT ![h] = "cas"]
            /\ UNCHANGED <<half, notifyFor>>
    /\ UNCHANGED <<seqCount, headAmount, lastRet, parkToken, tristate, handleRx, rxLock>>
    /\ BlockingFrame

\* send / recv, `state.compare_and_swap(BLOCK_NONE, BLOCK_<own side>)`: on BLOCK_NONE
\* or the own side's mark the thread registers; on the other side's mark it notifies
\* that side and tries again
TristateCas(h) ==
    /\ pc[h] = "cas"
    /\ IF tristate \in {BLOCK_NONE, BlockOf(side(h))}
       THEN /\ tristate' = BlockOf(side(h))
            /\ pc' = [pc EXCEPT ![h] = "register"]
            /\ UNCHANGED notifyFor
       ELSE /\ notifyFor' = [notifyFor EXCEPT ![h] = "retry"]
            /\ pc' = [pc EXCEPT ![h] = "notify_lock"]
            /\ UNCHANGED tristate
    /\ UNCHANGED <<seqCount, headAmount, half, lastRet, parkToken, handleRx, rxLock>>
    /\ BlockingFrame

\* register_sender / register_receiver, `local.tx.send(thread::current())`
Register(h) ==
    /\ pc[h] = "register"
    /\ handleRx' = [handleRx EXCEPT ![side(h)] = Append(@, h)]
    /\ pc' = [pc EXCEPT ![h] = "park"]
    /\ UNCHANGED <<seqCount, headAmount, half, lastRet, parkToken, tristate, rxLock, notifyFor>>
    /\ BlockingFrame

\* register_*, thread::park_timeout: an unpark token ends it (and is consumed), and
\* the loop tries again
ParkTimeoutWoken(h) ==
    /\ pc[h] = "park"
    /\ parkToken[h]
    /\ parkToken' = [parkToken EXCEPT ![h] = FALSE]
    /\ pc' = [pc EXCEPT ![h] = "try"]
    /\ UNCHANGED <<seqCount, headAmount, half, lastRet, extVars>>
    /\ BlockingFrame

\* register_*, thread::park_timeout: no token within 5 seconds; panic!("... locked!")
ParkTimeoutElapsed(h) ==
    /\ pc[h] = "park"
    /\ ~parkToken[h]
    /\ pc' = [pc EXCEPT ![h] = "panicked"]
    /\ UNCHANGED <<seqCount, headAmount, half, lastRet, parkToken, extVars>>
    /\ BlockingFrame

\* the end of notify_senders / notify_receivers of thread h: back to its caller
NotifyDone(h) ==
    IF notifyFor[h] \in {"retry", "drop"}
    THEN /\ pc' = [pc EXCEPT ![h] = IF notifyFor[h] = "retry" THEN "try" ELSE "idle"]
         /\ notifyFor' = [notifyFor EXCEPT ![h] = "none"]
         /\ UNCHANGED lastRet
    ELSE BlockingReturn(h, notifyFor[h])

\* notify_*, `self.<side>_rx.try_lock()`: WouldBlock ends the notify
NotifyTryLock(h) ==
    /\ pc[h] = "notify_lock"
    /\ LET t == Counterpart(side(h))
       IN  IF rxLock[t] = NoHandle
           THEN /\ rxLock' = [rxLock EXCEPT ![t] = h]
                /\ pc' = [pc EXCEPT ![h] = "notify_cas"]
                /\ UNCHANGED <<lastRet, notifyFor>>
           ELSE /\ NotifyDone(h)
                /\ UNCHANGED rxLock
    /\ UNCHANGED <<seqCount, headAmount, half, parkToken, tristate, handleRx>>
    /\ BlockingFrame

\* notify_*, `self.tristate.compare_and_swap(BLOCK_<side>, BLOCK_NONE)`
NotifyCas(h) ==
    /\ pc[h] = "notify_cas"
    /\ LET t == Counterpart(side(h))
       IN  IF tristate = BlockOf(t)
           THEN /\ tristate' = BLOCK_NONE
                /\ pc' = [pc EXCEPT ![h] = "notify_recv"]
           ELSE /\ pc' = [pc EXCEPT ![h] = "notify_iter"]
                /\ UNCHANGED tristate
    /\ UNCHANGED <<seqCount, headAmount, half, lastRet, parkToken, handleRx, rxLock, notifyFor>>
    /\ BlockingFrame

\* notify_*, `handles.recv()`: waits for one handle and unparks it; Err once every
\* tx of that side is dropped, which ends the notify
NotifyRecv(h) ==
    /\ pc[h] = "notify_recv"
    /\ LET t == Counterpart(side(h))
       IN  IF handleRx[t] # <<>>
           THEN /\ handleRx' = [handleRx EXCEPT ![t] = Tail(@)]
                /\ parkToken' = [parkToken EXCEPT ![Head(handleRx[t])] = TRUE]
                /\ pc' = [pc EXCEPT ![h] = "notify_iter"]
                /\ UNCHANGED <<rxLock, lastRet, notifyFor>>
           ELSE /\ headAmount[t] = 0
                /\ rxLock' = [rxLock EXCEPT ![t] = NoHandle]
                /\ NotifyDone(h)
                /\ UNCHANGED <<handleRx, parkToken>>
    /\ UNCHANGED <<seqCount, headAmount, half, tristate>>
    /\ BlockingFrame

\* notify_*, `for handle in handles.try_iter() { handle.unpark() }`, then the
\* MutexGuard is dropped
NotifyIter(h) ==
    /\ pc[h] = "notify_iter"
    /\ LET t == Counterpart(side(h))
       IN  /\ parkToken' = [x \in Handles |->
                               parkToken[x] \/ \E i \in 1..Len(handleRx[t]) : handleRx[t][i] = x]
           /\ handleRx' = [handleRx EXCEPT ![t] = <<>>]
           /\ rxLock' = [rxLock EXCEPT ![t] = NoHandle]
    /\ NotifyDone(h)
    /\ UNCHANGED <<seqCount, headAmount, half, tristate>>
    /\ BlockingFrame

\* Drop for Sender (queue/sender.rs): `head.senders.fetch_sub(1)`, then its extension
\* field is dropped: Drop for SenderLocal calls notify_receivers
SenderDrop(h) ==
    /\ h \in SenderIds /\ half[h].alive = "live" /\ pc[h] = "idle"
    /\ headAmount' = [headAmount EXCEPT !["S"] = @ - 1]
    /\ half' = [half EXCEPT ![h].alive = "dropped"]
    /\ notifyFor' = [notifyFor EXCEPT ![h] = "drop"]
    /\ pc' = [pc EXCEPT ![h] = "notify_lock"]
    /\ UNCHANGED <<seqCount, lastRet, parkToken, tristate, handleRx, rxLock>>
    /\ BlockingFrame

BlockingNext ==
    \E h \in Handles :
        \/ BlockingCall(h)
        \/ BlockingTrySend(h)
        \/ BlockingTryRecv(h)
        \/ ReceiverIsClosed(h)
        \/ TristateCas(h)
        \/ Register(h)
        \/ ParkTimeoutWoken(h)
        \/ ParkTimeoutElapsed(h)
        \/ NotifyTryLock(h)
        \/ NotifyCas(h)
        \/ NotifyRecv(h)
        \/ NotifyIter(h)
        \/ SenderDrop(h)

SpecBlocking == BlockingInit /\ [][BlockingNext]_vars

(***************************************************************************)
(* Functions checked on their own: the inputs are drawn in the initial     *)
(* state and one step applies the function.                                *)
(***************************************************************************)
\* the rest of the state while a component is checked on its own
UnitFacade(f) ==
    /\ facade = f
    /\ HeadInit
    /\ seqKind = [s \in Sides |-> "Owned"]
    /\ sendQuota = MaxSends
    /\ SchedInit /\ BlockersInit /\ ExtInit

UnitFrame == UNCHANGED <<queueVars, syncVars, blockVars, extVars>>

\* every raw value of a Counter whose close bit is clear
CounterValues == {2 * k : k \in 0..(WordMod \div 2 - 1)}

\* a Counter c and an amount n < 2^(W-3)/2
CounterInputs ==
    [op : {"add"}, c : CounterValues, n : 0..(COUNTER_VALID_RANGE \div 2 - 1)]

\* `let d = c + n;` then `d - c` and `d.partial_cmp(&c)`
CounterRoundTrip ==
    /\ fnIn.op = "add" /\ fnOut = NoOut
    /\ LET sum == CounterAdd(fnIn.c, fnIn.n)
       IN  fnOut' = [op |-> "add", sum |-> sum, diff |-> CounterSub(sum, fnIn.c),
                     cmp |-> CounterCmp(sum, fnIn.c)]
    /\ UNCHANGED <<fnIn, unitObj, unitPc, unitReg, unitRet, unitLog>>
    /\ UnitFrame

(***************************************************************************)
(* buffer.rs: Drop for Inner, run when the last Half lets go of the ring.  *)
(***************************************************************************)
\* the ring at its drop: head.start() and the number of slots still occupied
DropInputs ==
    [op : {"drop"}, start : CounterValues, n : 0..Capacity]

\* `end > index` on the raw words
DropContinuesPlain(end, index) == end > index

\* `while end > index`
DropContinues(end, index) == CounterCmp(end, index) = 1

\* the loop of drop: the slots handed to ptr::drop_in_place, in order
RECURSIVE DropLoop(_, _, _)
DropLoop(index, end, dropped) ==
    IF DropContinues(end, index)
    THEN DropLoop(CounterAdd(index, 1), end, Append(dropped, CounterMask(index, Capacity)))
    ELSE dropped

\* Drop for Inner: mask = capacity - 1, start = head.start(), end = head.end()
InnerDrop ==
    /\ fnIn.op = "drop" /\ fnOut = NoOut
    /\ LET start == fnIn.start
           end == CounterAdd(fnIn.start, fnIn.n)
       IN  fnOut' = [op |-> "drop", dropped |-> DropLoop(start, end, <<>>)]
    /\ UNCHANGED <<fnIn, unitObj, unitPc, unitReg, unitRet, unitLog>>
    /\ UnitFrame

(***************************************************************************)
(* buffer.rs: Buffer::new(head, capacity).                                 *)
(***************************************************************************)
\* every usize
NewInputs == [op : {"new"}, capacity : 0..(WordMod - 1)]

\* usize::is_power_of_two: exactly one bit is set
IsPowerOfTwo(n) == \E k \in 0..(WORD - 1) : n = Pow2(k)

\* Buffer::new: the two assertions; the ring is built if both pass
BufferNew ==
    /\ fnIn.op = "new" /\ fnOut = NoOut
    /\ LET capacity == fnIn.capacity
       IN  fnOut' = [op |-> "new",
                     panics |-> \/ ~IsPowerOfTwo(capacity)
                                \/ (capacity * 4) % WordMod = 0,
                     mask |-> capacity - 1]
    /\ UNCHANGED <<fnIn, unitObj, unitPc, unitReg, unitRet, unitLog>>
    /\ UnitFrame

(***************************************************************************)
(* spsc.rs: channel(capacity).                                             *)
(***************************************************************************)
\* every usize
SpscInputs == [op : {"channel"}, capacity : 0..(WordMod - 1)]

\* isize::MAX as usize: every bit but the most significant one
ISIZE_MAX == Pow2(WORD - 1) - 1

\* a & b on usize
RECURSIVE BitAnd(_, _)
BitAnd(a, b) ==
    IF a = 0 \/ b = 0 THEN 0
    ELSE (a % 2) * (b % 2) + 2 * BitAnd(a \div 2, b \div 2)

\* spsc::channel: `assert!(capacity.is_power_of_two() && capacity & (isize::MAX as usize)
\* == 0)`, then RingBuf::new and its own assert
SpscChannel ==
    /\ fnIn.op = "channel" /\ fnOut = NoOut
    /\ LET capacity == fnIn.capacity
       IN  fnOut' = [op |-> "channel",
                     panics |-> \/ ~(IsPowerOfTwo(capacity) /\ BitAnd(capacity, ISIZE_MAX) = 0)
                                \/ ~IsPowerOfTwo(capacity)]
    /\ UNCHANGED <<fnIn, unitObj, unitPc, unitReg, unitRet, unitLog>>
    /\ UnitFrame

\* scheduler/atomic.rs: the bits of a word that carry the ABA tag
FLAG == 63

\* the node addresses of a usize word: aligned to 64 bytes, null (0) included
Aligned == {a \in 0..(WordMod - 1) : a % (FLAG + 1) = 0}

PtrInputs == [op : {"ptr"}, inner : Aligned, flag : 0..FLAG]

\* a | b on usize
RECURSIVE BitOr(_, _)
BitOr(a, b) ==
    IF a = 0 THEN b
    ELSE IF b = 0 THEN a
    ELSE (IF (a % 2) = 1 \/ (b % 2) = 1 THEN 1 ELSE 0) + 2 * BitOr(a \div 2, b \div 2)

\* a ^ b on usize
RECURSIVE BitXor(_, _)
BitXor(a, b) ==
    IF a = 0 THEN b
    ELSE IF b = 0 THEN a
    ELSE (((a % 2) + (b % 2)) % 2) + 2 * BitXor(a \div 2, b \div 2)

\* Ptr::merge: `self.inner as usize | self.flag`
PtrMerge(inner, flag) == BitOr(inner, flag)

\* Ptr::restore: `flag: value & FLAG, inner: (value ^ FLAG) as *mut T`
PtrRestore(value) ==
    [flag |-> BitAnd(value, FLAG), inner |-> BitXor(value, FLAG)]

\* Atomic::new(ptr) followed by Atomic::load: restore(merge(ptr))
AtomicLoad ==
    /\ fnIn.op = "ptr" /\ fnOut = NoOut
    /\ LET stored == PtrMerge(fnIn.inner, fnIn.flag)
           loaded == PtrRestore(stored)
       IN  fnOut' = [op |-> "ptr", inner |-> loaded.inner, flag |-> loaded.flag]
    /\ UNCHANGED <<fnIn, unitObj, unitPc, unitReg, unitRet, unitLog>>
    /\ UnitFrame

\* every raw Counter, close bit set or not, and every capacity Buffer::new accepts
GetInputs ==
    [op : {"get"}, c : 0..(WordMod - 1),
     capacity : {k \in 1..(WordMod - 1) : IsPowerOfTwo(k) /\ (k * 4) % WordMod # 0}]

\* an index taken from the raw word, close bit included
BufferIndexUnshifted(count, mask) == BitAnd(count, mask)

\* Buffer::get: `count & self.mask`, ops::BitAnd<usize> for Counter: (self.0 >> 1) & rhs
BufferIndex(count, mask) == BitAnd(count \div 2, mask)

\* Buffer::get(count) and Buffer::get(count + 1) of a ring with mask = capacity - 1
BufferGet ==
    /\ fnIn.op = "get" /\ fnOut = NoOut
    /\ LET mask == fnIn.capacity - 1
       IN  fnOut' = [op |-> "get", index |-> BufferIndex(fnIn.c, mask),
                     next |-> BufferIndex(CounterAdd(fnIn.c, 1), mask)]
    /\ UNCHANGED <<fnIn, unitObj, unitPc, unitReg, unitRet, unitLog>>
    /\ UnitFrame

FnInputs ==
    CounterInputs \cup DropInputs \cup NewInputs \cup SpscInputs \cup PtrInputs \cup GetInputs

FnInit == UnitFacade("fn") /\ fnIn \in FnInputs /\ fnOut = NoOut /\ NoObject

FnNext ==
    CounterRoundTrip \/ InnerDrop \/ BufferNew \/ SpscChannel \/ AtomicLoad \/ BufferGet

SpecFn == FnInit /\ [][FnNext]_vars

(***************************************************************************)
(* counter/atomic.rs: an AtomicCounter shared by threads that call incr,   *)
(* fetch, comp_swap and close on it.                                       *)
(***************************************************************************)
LSB == 1

\* make: the Counter a raw value holds, unless its close bit is set
IsCounter(value) == value % 2 = 0

\* the counters a run starts from: zero, and the last ones before the word wraps
AtomicStarts == {CounterNew(0)} \cup {WordMod - 2 * j : j \in 1..MaxOps}

\* AtomicCounter::new(value): `last` starts invalid
AtomicInit ==
    /\ UnitFacade("atomic")
    /\ fnIn \in [op : {"atomic"}, start : AtomicStarts, swaps : BOOLEAN]
    /\ fnOut = NoOut
    /\ unitObj = [counter |-> fnIn.start, last |-> LSB, calls |-> 0]
    /\ unitPc = [h \in Handles |-> "idle"]
    /\ unitReg = [h \in Handles |-> 0]
    /\ unitRet = NoRet
    /\ unitLog = <<>>

AtomicFrame == UnitFrame /\ UNCHANGED <<fnIn, fnOut>>

\* a thread enters a method of the counter
AtomicCall(h) == unitPc[h] = "idle" /\ unitObj.calls < MaxOps

\* the method returns kind k with value v; it is return number unitObj'.calls
AtomicReturn(h, k, v) ==
    /\ unitPc' = [unitPc EXCEPT ![h] = "idle"]
    /\ unitReg' = [unitReg EXCEPT ![h] = 0]
    /\ unitRet' = Ret(h, k, [by |-> h, seq |-> unitObj'.calls, val |-> v])

\* fetch_add(0b10) stopping at the largest word instead of wrapping
FetchAddSaturating(prev) == IF prev + 2 >= WordMod THEN prev ELSE prev + 2

\* fetch_add(1)
FetchAddOne(prev) == (prev + 1) % WordMod

\* self.counter.fetch_add(0b10): the value it stores
FetchAdd(prev) == (prev + 2) % WordMod

\* incr: make(self.counter.fetch_add(0b10))
AtomicIncr(h) ==
    /\ AtomicCall(h)
    /\ LET prev == unitObj.counter
       IN  /\ unitObj' = [unitObj EXCEPT !.counter = FetchAdd(prev),
                                         !.calls = @ + 1]
           /\ IF IsCounter(prev)
              THEN AtomicReturn(h, "Some", prev) /\ unitLog' = Append(unitLog, prev)
              ELSE AtomicReturn(h, "None", 0) /\ unitLog' = unitLog
    /\ AtomicFrame

\* fetch: the counter if it is open, otherwise go and read `last`
AtomicFetch(h) ==
    /\ AtomicCall(h)
    /\ unitObj' = [unitObj EXCEPT !.calls = @ + 1]
    /\ IF IsCounter(unitObj.counter)
       THEN AtomicReturn(h, "Ok", unitObj.counter)
       ELSE /\ unitPc' = [unitPc EXCEPT ![h] = "fetch_last"]
            /\ UNCHANGED <<unitReg, unitRet>>
    /\ UNCHANGED unitLog
    /\ AtomicFrame

\* fetch's loop: it leaves with Err(last) once `last` holds a counter
AtomicFetchLast(h) ==
    /\ unitPc[h] = "fetch_last"
    /\ IsCounter(unitObj.last)
    /\ UNCHANGED <<unitObj, unitLog>>
    /\ AtomicReturn(h, "Err", unitObj.last)
    /\ AtomicFrame

\* comp_swap(cond, value): Ok(()) and the store if the counter equals cond,
\* otherwise Err(make(res))
AtomicCompSwap(h, cond, value) ==
    /\ AtomicCall(h)
    /\ fnIn.swaps
    /\ LET res == unitObj.counter
       IN  IF res = cond
           THEN /\ unitObj' = [unitObj EXCEPT !.counter = value, !.calls = @ + 1]
                /\ AtomicReturn(h, "SwapOk", 0)
           ELSE /\ unitObj' = [unitObj EXCEPT !.calls = @ + 1]
                /\ IF IsCounter(res) THEN AtomicReturn(h, "SwapErrSome", res)
                                     ELSE AtomicReturn(h, "SwapErrNone", 0)
    /\ UNCHANGED unitLog
    /\ AtomicFrame

\* close: `let mut value = self.counter.load(..)`
AtomicCloseLoad(h) ==
    /\ AtomicCall(h)
    /\ unitObj' = [unitObj EXCEPT !.calls = @ + 1]
    /\ unitPc' = [unitPc EXCEPT ![h] = "close_cas"]
    /\ unitReg' = [unitReg EXCEPT ![h] = unitObj.counter]
    /\ UNCHANGED <<unitRet, unitLog>>
    /\ AtomicFrame

\* a store in place of the compare_and_swap
CasBlind(prev, value) == TRUE

\* compare_and_swap(value, LSB) stores if the counter still holds `value`
CasSucceeds(prev, value) == prev = value

\* close's loop: return if `value` is closed, otherwise compare_and_swap(value, LSB)
AtomicCloseCas(h) ==
    /\ unitPc[h] = "close_cas"
    /\ IF ~IsCounter(unitReg[h])
       THEN UNCHANGED unitObj /\ AtomicReturn(h, "Closed", 0)
       ELSE LET prev == unitObj.counter
            IN  IF CasSucceeds(prev, unitReg[h])
                THEN /\ unitObj' = [unitObj EXCEPT !.counter = LSB]
                     /\ unitPc' = [unitPc EXCEPT ![h] = "close_store"]
                     /\ UNCHANGED <<unitReg, unitRet>>
                ELSE /\ unitReg' = [unitReg EXCEPT ![h] = prev]
                     /\ UNCHANGED <<unitObj, unitPc, unitRet>>
    /\ UNCHANGED unitLog
    /\ AtomicFrame

\* close's end: self.last.store(value)
AtomicCloseStore(h) ==
    /\ unitPc[h] = "close_store"
    /\ unitObj' = [unitObj EXCEPT !.last = unitReg[h]]
    /\ AtomicReturn(h, "Closed", 0)
    /\ UNCHANGED unitLog
    /\ AtomicFrame

AtomicNext ==
    \E h \in Handles :
        \/ AtomicIncr(h)
        \/ AtomicFetch(h)
        \/ AtomicFetchLast(h)
        \/ \E cond \in {fnIn.start, CounterAdd(fnIn.start, 1)} :
               AtomicCompSwap(h, cond, CounterAdd(cond, 1))
        \/ AtomicCloseLoad(h)
        \/ AtomicCloseCas(h)
        \/ AtomicCloseStore(h)

SpecAtomic == AtomicInit /\ [][AtomicNext]_vars

(***************************************************************************)
(* queue/unbounded.rs over queue/chain.rs: one Sender and one Receiver on  *)
(* a chain of ring segments. Node 0 is the head node (no buffer), node i   *)
(* is segment i; node i's `next` holds node i + 1 if there is one, and the *)
(* last node's `next` is Empty or Closed.                                  *)
(***************************************************************************)
MaxClones == 1
UbSender == FirstHandle("S")
UbReceiver == FirstHandle("R")

\* the locals of an endpoint: chain.inner, half (0 is None) with its Owned cache
\* (count, limit), the counter a try_advance claimed, the message in hand
UbRegs == [inner |-> 0, half |-> 0, count |-> 0, limit |-> 0, claimed |-> 0, msg |-> 0]

\* chain::pair and unbounded::queue: the head node alone, both live counts 1 (the
\* sender's is 1 + clones, the clones being Senders that never sent)
UbInit ==
    /\ UnitFacade("unbounded")
    /\ fnIn = NoIn /\ fnOut = NoOut
    /\ unitObj = [segs |-> <<>>, closed |-> FALSE, sent |-> 0, clones |-> 0]
    /\ unitPc = [h \in Handles |-> "idle"]
    /\ unitReg = [h \in Handles |-> UbRegs]
    /\ unitRet = NoRet
    /\ unitLog = <<>>

UbFrame == UnitFrame /\ UNCHANGED <<fnIn, fnOut>>

\* Inner { buf: Some(Buffer::new(Head::new(..), capacity)), next: AtomicArc::new() }
NewSegment(capacity) ==
    [cap |-> capacity, body |-> [i \in 0..(capacity - 1) |-> 0],
     count |-> [sd \in Sides |-> CounterNew(0)], amount |-> [sd \in Sides |-> 1],
     has_cache |-> [sd \in Sides |-> FALSE], is_closed |-> FALSE]

\* inner.next.fetch() of node i
NextOf(i) ==
    IF i < Len(unitObj.segs) THEN "Holds" ELSE IF unitObj.closed THEN "Closed" ELSE "Empty"

\* Drop for Half of segment i (none if i = 0): the last Half of a side closes the segment
DropHalf(segs, sd, i) ==
    IF i = 0 THEN segs
    ELSE [segs EXCEPT ![i].amount[sd] = @ - 1,
                      ![i].is_closed = @ \/ segs[i].amount[sd] = 1]

\* Limit::count of the Half of side sd on segment i
UbLimit(sd, i) ==
    IF sd = "S" THEN CounterAdd(unitObj.segs[i].count["R"], unitObj.segs[i].cap)
    ELSE unitObj.segs[i].count["S"]

UbReturn(h, k, m) ==
    /\ unitPc' = [unitPc EXCEPT ![h] = "idle"]
    /\ unitRet' = Ret(h, k, m)

\* try_send(msg): the payloads are numbered in send order
UbTrySend(h) ==
    /\ h = UbSender /\ unitPc[h] = "idle"
    /\ unitObj.sent < MaxSends
    /\ unitPc' = [unitPc EXCEPT ![h] = "send_top"]
    /\ unitReg' = [unitReg EXCEPT ![h].msg = unitObj.sent + 1]
    /\ UNCHANGED <<unitObj, unitRet, unitLog>>
    /\ UbFrame

\* top of try_send's loop: goto_next() (then half = None and goto_last()), is_closed(),
\* then try_advance if there is a half
UbSendTop(h) ==
    /\ unitPc[h] = "send_top"
    /\ LET moved == NextOf(unitReg[h].inner) = "Holds"
           newHalf == IF moved THEN 0 ELSE unitReg[h].half
           inner == IF moved THEN Len(unitObj.segs) ELSE unitReg[h].inner
       IN  /\ unitObj' = [unitObj EXCEPT
                             !.segs = IF moved THEN DropHalf(@, "S", unitReg[h].half) ELSE @]
           /\ unitReg' = [unitReg EXCEPT ![h].inner = inner, ![h].half = newHalf]
           /\ IF unitObj.closed
              THEN UbReturn(h, "SendError", unitReg[h].msg)
              ELSE /\ unitPc' = [unitPc EXCEPT ![h] = IF newHalf # 0 THEN "send_adv"
                                                      ELSE IF inner = 0 THEN "send_grow"
                                                      ELSE "send_half"]
                   /\ unitRet' = unitRet
    /\ UNCHANGED unitLog
    /\ UbFrame

\* Owned::claim inside half.try_advance: refresh the cached limit when it is used up
UbClaim(h, sd, onSome, onNone) ==
    LET cache == unitReg[h]
        limit == IF cache.count = cache.limit THEN UbLimit(sd, cache.half) ELSE cache.limit
    IN  /\ unitReg' = [unitReg EXCEPT
               ![h].limit = limit,
               ![h].claimed = cache.count,
               ![h].count = IF cache.count = limit THEN @ ELSE CounterAdd(@, 1)]
        /\ unitPc' = [unitPc EXCEPT ![h] = IF cache.count = limit THEN onNone ELSE onSome]

\* the sender's half.try_advance(msg), up to the claim; on Err(msg_back) it goes to grow()
UbSendClaim(h) ==
    /\ unitPc[h] = "send_adv"
    /\ UbClaim(h, "S", "send_commit", "send_grow")
    /\ UNCHANGED <<unitObj, unitRet, unitLog>>
    /\ UbFrame

\* the rest of a successful try_advance: write the slot, commit, return Ok(())
UbSendCommit(h) ==
    /\ unitPc[h] = "send_commit"
    /\ LET i == unitReg[h].half
           slot == CounterMask(unitReg[h].claimed, unitObj.segs[i].cap)
       IN  unitObj' = [unitObj EXCEPT !.segs[i].body[slot] = unitReg[h].msg,
                                      !.segs[i].count["S"] = CounterAdd(@, 1),
                                      !.sent = @ + 1]
    /\ UbReturn(h, "Ok", 0)
    /\ UNCHANGED <<unitReg, unitLog>>
    /\ UbFrame

\* chain.grow(): a segment of twice the capacity (1 after the head node), linked by
\* prev.next.init(); a lost race adopts the winner, a closed chain stays as it is
UbGrow(h) ==
    /\ unitPc[h] = "send_grow"
    /\ LET inner == unitReg[h].inner
           capacity == IF inner = 0 THEN 1 ELSE unitObj.segs[inner].cap * 2
           state == NextOf(inner)
       IN  /\ unitObj' = [unitObj EXCEPT
                  !.segs = IF state = "Empty" THEN Append(@, NewSegment(capacity)) ELSE @]
           /\ unitReg' = [unitReg EXCEPT
                  ![h].inner = IF state = "Closed" THEN @ ELSE @ + 1]
           /\ unitPc' = [unitPc EXCEPT
                  ![h] = IF state = "Closed" /\ inner = 0 THEN "panic" ELSE "send_half"]
    /\ UNCHANGED <<unitRet, unitLog>>
    /\ UbFrame

\* Half::new on chain.buf(): Sequence::cache() takes the one cache of the Owned
\* sequence; assigning self.half drops the previous Half
UbNewHalf(h) ==
    /\ unitPc[h] \in {"send_half", "recv_half"}
    /\ LET sd == side(h)
           i == unitReg[h].inner
       IN  IF unitObj.segs[i].has_cache[sd]
           THEN /\ unitPc' = [unitPc EXCEPT ![h] = "panic"]
                /\ UNCHANGED <<unitObj, unitReg>>
           ELSE /\ unitObj' = [unitObj EXCEPT
                       !.segs = [DropHalf(@, sd, unitReg[h].half)
                                    EXCEPT ![i].has_cache[sd] = TRUE]]
                /\ unitReg' = [unitReg EXCEPT ![h].half = i,
                                              ![h].count = unitObj.segs[i].count[sd],
                                              ![h].limit = UbLimit(sd, i)]
                /\ unitPc' = [unitPc EXCEPT ![h] = IF sd = "S" THEN "send_top" ELSE "recv_adv1"]
    /\ UNCHANGED <<unitRet, unitLog>>
    /\ UbFrame

\* try_recv's entry: Err(RecvError) while the head node has no successor
UbTryRecv(h) ==
    /\ h = UbReceiver /\ unitPc[h] = "idle"
    /\ IF unitReg[h].inner = 0 /\ NextOf(0) # "Holds"
       THEN UbReturn(h, "RecvError", 0) /\ UNCHANGED unitReg
       ELSE /\ unitReg' = [unitReg EXCEPT ![h].inner = IF @ = 0 THEN 1 ELSE @]
            /\ unitPc' = [unitPc EXCEPT ![h] = IF unitReg[h].half # 0 THEN "recv_adv1"
                                                                       ELSE "recv_half"]
            /\ unitRet' = unitRet
    /\ UNCHANGED <<unitObj, unitLog>>
    /\ UbFrame

\* the step after half.is_closed() returned true, without the second try_advance
AfterClosedUnchecked == "recv_next"

\* the step after half.is_closed() returned true: try_advance once more
AfterClosed == "recv_adv2"

\* the receiver's three half.try_advance(()) calls, up to the claim: the fast path, the
\* one after is_closed(), and the last one after the chain was seen closed
UbRecvClaim(h) ==
    /\ unitPc[h] \in {"recv_adv1", "recv_adv2", "recv_adv3"}
    /\ UbClaim(h, "R", "recv_commit",
               IF unitPc[h] = "recv_adv1" THEN "recv_closed"
               ELSE IF unitPc[h] = "recv_adv2" THEN "recv_next" ELSE "recv_none")
    /\ UNCHANGED <<unitObj, unitRet, unitLog>>
    /\ UbFrame

\* the rest of a successful try_advance: read the slot, commit, return Ok(Some(msg))
UbRecvCommit(h) ==
    /\ unitPc[h] = "recv_commit"
    /\ LET i == unitReg[h].half
           slot == CounterMask(unitReg[h].claimed, unitObj.segs[i].cap)
           msg == unitObj.segs[i].body[slot]
       IN  /\ unitObj' = [unitObj EXCEPT !.segs[i].body[slot] = 0,
                                         !.segs[i].count["R"] = CounterAdd(@, 1)]
           /\ unitLog' = Append(unitLog, msg)
           /\ UbReturn(h, "Some", msg)
    /\ UNCHANGED unitReg
    /\ UbFrame

\* `if !half.is_closed() { return Err(RecvError) }`
UbRecvIsClosed(h) ==
    /\ unitPc[h] = "recv_closed"
    /\ IF unitObj.segs[unitReg[h].half].is_closed
       THEN unitPc' = [unitPc EXCEPT ![h] = AfterClosed] /\ unitRet' = unitRet
       ELSE UbReturn(h, "RecvError", 0)
    /\ UNCHANGED <<unitObj, unitReg, unitLog>>
    /\ UbFrame

\* `if !self.chain.goto_next()`: move to the next segment if there is one
UbRecvGotoNext(h) ==
    /\ unitPc[h] = "recv_next"
    /\ IF NextOf(unitReg[h].inner) = "Holds"
       THEN /\ unitReg' = [unitReg EXCEPT ![h].inner = @ + 1]
            /\ unitPc' = [unitPc EXCEPT ![h] = "recv_half"]
       ELSE /\ unitPc' = [unitPc EXCEPT ![h] = "recv_chain"]
            /\ UNCHANGED unitReg
    /\ UNCHANGED <<unitObj, unitRet, unitLog>>
    /\ UbFrame

\* `if !self.chain.is_closed() { continue }`, else the last try_advance
UbRecvChainClosed(h) ==
    /\ unitPc[h] = "recv_chain"
    /\ unitPc' = [unitPc EXCEPT ![h] = IF unitObj.closed THEN "recv_adv3" ELSE "recv_adv1"]
    /\ UNCHANGED <<unitObj, unitReg, unitRet, unitLog>>
    /\ UbFrame

\* `Err(()) => Ok(None)`
UbRecvNone(h) ==
    /\ unitPc[h] = "recv_none"
    /\ UbReturn(h, "None", 0)
    /\ UNCHANGED <<unitObj, unitReg, unitLog>>
    /\ UbFrame

\* the Sender is dropped, its fields in order. Drop for Chain: the last sender closes
\* the chain, the final `next` goes Empty -> Closed
UbSenderDrop(h) ==
    /\ h = UbSender /\ unitPc[h] = "idle"
    /\ unitObj' = [unitObj EXCEPT !.closed = @ \/ unitObj.clones = 0]
    /\ unitPc' = [unitPc EXCEPT ![h] = "drop_half"]
    /\ UNCHANGED <<unitReg, unitRet, unitLog>>
    /\ UbFrame

\* then Drop for Half, if the Sender held one
UbSenderDropHalf(h) ==
    /\ unitPc[h] = "drop_half"
    /\ unitObj' = [unitObj EXCEPT !.segs = DropHalf(@, "S", unitReg[h].half)]
    /\ unitReg' = [unitReg EXCEPT ![h].half = 0]
    /\ unitPc' = [unitPc EXCEPT ![h] = "dead"]
    /\ UNCHANGED <<unitRet, unitLog>>
    /\ UbFrame

UbNext ==
    \E h \in {UbSender, UbReceiver} :
        \/ UbTrySend(h) \/ UbSendTop(h) \/ UbSendClaim(h) \/ UbSendCommit(h)
        \/ UbGrow(h) \/ UbNewHalf(h)
        \/ UbTryRecv(h) \/ UbRecvClaim(h) \/ UbRecvCommit(h) \/ UbRecvIsClosed(h)
        \/ UbRecvGotoNext(h) \/ UbRecvChainClosed(h) \/ UbRecvNone(h)
        \/ UbSenderDrop(h) \/ UbSenderDropHalf(h)

SpecUnbounded == UbInit /\ [][UbNext]_vars

(***************************************************************************)
(* queue/unbounded.rs with a Receiver that closes or is dropped while the  *)
(* Sender is at work.                                                      *)
(***************************************************************************)
\* Receiver::close, `self.chain.close()`: the final `next` goes Empty -> Closed
UbReceiverClose(h) ==
    /\ h = UbReceiver /\ unitPc[h] = "idle"
    /\ unitObj' = [unitObj EXCEPT !.closed = TRUE]
    /\ unitPc' = [unitPc EXCEPT ![h] = "close_half"]
    /\ UNCHANGED <<unitReg, unitRet, unitLog>>
    /\ UbFrame

\* the Receiver is dropped, its fields in order. Drop for Chain: the last receiver
\* closes the chain
UbReceiverDrop(h) ==
    /\ h = UbReceiver /\ unitPc[h] = "idle"
    /\ unitObj' = [unitObj EXCEPT !.closed = TRUE]
    /\ unitPc' = [unitPc EXCEPT ![h] = "rdrop_half"]
    /\ UNCHANGED <<unitReg, unitRet, unitLog>>
    /\ UbFrame

\* Receiver::close, `self.half = None`, and the drop of the field `half`: Drop for
\* Half, if the Receiver held one
UbReceiverDropHalf(h) ==
    /\ h = UbReceiver /\ unitPc[h] \in {"close_half", "rdrop_half"}
    /\ unitObj' = [unitObj EXCEPT !.segs = DropHalf(@, "R", unitReg[h].half)]
    /\ unitReg' = [unitReg EXCEPT ![h].half = 0]
    /\ unitPc' = [unitPc EXCEPT ![h] = IF unitPc[h] = "close_half" THEN "idle" ELSE "dead"]
    /\ UNCHANGED <<unitRet, unitLog>>
    /\ UbFrame

UbCloseNext ==
    \/ UbNext
    \/ UbReceiverClose(UbReceiver)
    \/ UbReceiverDrop(UbReceiver)
    \/ UbReceiverDropHalf(UbReceiver)

SpecUnboundedClose == UbInit /\ [][UbCloseNext]_vars

(***************************************************************************)
(* queue/unbounded.rs under a fair scheduler: a thread inside try_send,    *)
(* try_recv or a drop keeps being scheduled; nobody has to start a call.   *)
(***************************************************************************)
UbInCall(h) ==
    \/ UbSendTop(h) \/ UbSendClaim(h) \/ UbSendCommit(h) \/ UbGrow(h) \/ UbNewHalf(h)
    \/ UbRecvClaim(h) \/ UbRecvCommit(h) \/ UbRecvIsClosed(h)
    \/ UbRecvGotoNext(h) \/ UbRecvChainClosed(h) \/ UbRecvNone(h)
    \/ UbSenderDropHalf(h)

\* Clone for Sender (S: MultiCache): chain.clone() counts one more live sender, the
\* clone has no Half
UbSenderClone(h) ==
    /\ h = UbSender /\ unitPc[h] = "idle" /\ unitObj.clones < MaxClones
    /\ unitObj' = [unitObj EXCEPT !.clones = @ + 1]
    /\ UNCHANGED <<unitPc, unitReg, unitRet, unitLog>>
    /\ UbFrame

\* a clone that never sent is dropped: Drop for Chain closes the chain if it was the
\* last live sender; there is no Half to drop
UbCloneDrop ==
    /\ unitObj.clones > 0
    /\ unitObj' = [unitObj EXCEPT
           !.clones = @ - 1,
           !.closed = @ \/ (unitObj.clones = 1 /\ unitPc[UbSender] \in {"drop_half", "dead"})]
    /\ UNCHANGED <<unitPc, unitReg, unitRet, unitLog>>
    /\ UbFrame

UbCloneNext ==
    \/ UbNext
    \/ UbSenderClone(UbSender)
    \/ UbCloneDrop

SpecUnboundedFair ==
    /\ UbInit /\ [][UbCloneNext]_vars
    /\ \A h \in {UbSender, UbReceiver} : WF_vars(UbInCall(h))

(***************************************************************************)
(* sequence/owned.rs: threads asking an Owned sequence for its cache.      *)
(***************************************************************************)
\* Owned::default(): count zero, has_cache false
OwnedInit ==
    /\ UnitFacade("owned")
    /\ fnIn = NoIn /\ fnOut = NoOut
    /\ unitObj = [has_cache |-> FALSE, count |-> CounterNew(0), calls |-> 0]
    /\ unitPc = [h \in Handles |-> "idle"]
    /\ unitReg = [h \in Handles |-> 0]
    /\ unitRet = NoRet
    /\ unitLog = <<>>

\* a load in place of the fetch_or
FetchOrUnset(prev) == prev

\* has_cache.fetch_or(true, Release): the value it stores
FetchOr(prev) == TRUE

\* cache(): `if self.has_cache.fetch_or(true) { return Err(NotAvailable) }`
OwnedCacheFlag(h) ==
    /\ unitPc[h] = "idle" /\ unitObj.calls < MaxOps
    /\ unitObj' = [unitObj EXCEPT !.has_cache = FetchOr(@), !.calls = @ + 1]
    /\ IF unitObj.has_cache
       THEN /\ unitLog' = Append(unitLog, [by |-> h, kind |-> "NotAvailable"])
            /\ unitPc' = unitPc
       ELSE /\ unitLog' = unitLog
            /\ unitPc' = [unitPc EXCEPT ![h] = "cache_fetch"]
    /\ UNCHANGED <<unitReg, unitRet>>
    /\ UbFrame

\* cache(): `match self.count.fetch()`: Ok(Cache { count, limit }) or Err(SeqClosed)
OwnedCacheFetch(h) ==
    /\ unitPc[h] = "cache_fetch"
    /\ unitLog' = Append(unitLog, [by |-> h, kind |-> IF IsCounter(unitObj.count)
                                                      THEN "Ok" ELSE "SeqClosed"])
    /\ unitPc' = [unitPc EXCEPT ![h] = "idle"]
    /\ UNCHANGED <<unitObj, unitReg, unitRet>>
    /\ UbFrame

\* the sequence is closed through counter(): AtomicCounter::close sets the LSB
OwnedClose ==
    /\ IsCounter(unitObj.count)
    /\ unitObj' = [unitObj EXCEPT !.count = LSB]
    /\ UNCHANGED <<unitPc, unitReg, unitRet, unitLog>>
    /\ UbFrame

OwnedNext ==
    \/ \E h \in Handles : OwnedCacheFlag(h) \/ OwnedCacheFetch(h)
    \/ OwnedClose

SpecOwned == OwnedInit /\ [][OwnedNext]_vars

(***************************************************************************)
(* blocker/sync.rs over blocker/state.rs: blocking send / recv of a        *)
(* channel::<Owned, Owned, Blocker, _>. The extension is an AtomicState    *)
(* and one MsQueue<Thread> per side. One thread sends MaxSends messages    *)
(* and one thread receives MaxSends messages (test_blocking_spsc).         *)
(***************************************************************************)
BkSender == FirstHandle("S")
BkReceiver == FirstHandle("R")
BkThreads == {BkSender, BkReceiver}

\* State::Block* / State::Wake* of a side
BlockState(s) == IF s = "S" THEN "BlockSender" ELSE "BlockReceiver"
WakeState(s) == IF s = "S" THEN "WakeSender" ELSE "WakeReceiver"
OtherSide(s) == IF s = "S" THEN "R" ELSE "S"

\* the locals of send / recv: res (and the message of a Some), next_cond, next_target
BkRegs == [res |-> "none", msg |-> 0, cond |-> "Neutral", target |-> "Neutral"]

\* channel(capacity) with Blocker::default(): empty ring, state Neutral, empty queues
BkInit ==
    /\ UnitFacade("blocker")
    /\ fnIn = NoIn /\ fnOut = NoOut
    /\ unitObj = [state |-> "Neutral", senders |-> <<>>, receivers |-> <<>>,
                  ring |-> <<>>, sent |-> 0, token |-> [h \in BkThreads |-> FALSE],
                  panicked |-> FALSE]
    /\ unitPc = [h \in Handles |-> "idle"]
    /\ unitReg = [h \in Handles |-> BkRegs]
    /\ unitRet = NoRet
    /\ unitLog = <<>>

BkFrame == UnitFrame /\ UNCHANGED <<fnIn, fnOut>>

\* AtomicState::transit: the value compare_and_swap(cond, next) leaves in `inner`
Transit(prev, cond, next) == IF prev = cond THEN next ELSE prev

\* the thread's loop `for i in 0..COUNT { tx.send(i) }` / `{ rx.recv() }`: the next call
BkCall(h) ==
    /\ h \in BkThreads /\ unitPc[h] = "idle"
    /\ IF side(h) = "S" THEN unitObj.sent < MaxSends ELSE Len(unitLog) < MaxSends
    /\ unitPc' = [unitPc EXCEPT ![h] = "try"]
    /\ UNCHANGED <<unitObj, unitReg, unitRet, unitLog>>
    /\ BkFrame

\* send: `let res = self.try_send(msg)`; then (next_cond, next_target) =
\* (BlockReceiver, WakeReceiver)
BkTrySend(h) ==
    /\ h = BkSender /\ unitPc[h] = "try"
    /\ IF Len(unitObj.ring) < Capacity
       THEN /\ unitObj' = [unitObj EXCEPT !.ring = Append(@, unitObj.sent + 1),
                                          !.sent = @ + 1]
            /\ unitReg' = [unitReg EXCEPT ![h] = [res |-> "Ok", msg |-> 0, cond |-> BlockState("R"),
                                                  target |-> WakeState("R")]]
       ELSE /\ unitObj' = unitObj
            /\ unitReg' = [unitReg EXCEPT ![h] = [res |-> "Err", msg |-> 0, cond |-> BlockState("R"),
                                                  target |-> WakeState("R")]]
    /\ unitPc' = [unitPc EXCEPT ![h] = "wake"]
    /\ UNCHANGED <<unitRet, unitLog>>
    /\ BkFrame

\* recv: `let res = self.try_recv()`; then (next_cond, next_target) =
\* (BlockSender, WakeSender)
BkTryRecv(h) ==
    /\ h = BkReceiver /\ unitPc[h] = "try"
    /\ IF unitObj.ring # <<>>
       THEN /\ unitObj' = [unitObj EXCEPT !.ring = Tail(@)]
            /\ unitReg' = [unitReg EXCEPT ![h] = [res |-> "Some", msg |-> Head(unitObj.ring),
                                                  cond |-> BlockState("S"),
                                                  target |-> WakeState("S")]]
       ELSE /\ unitObj' = unitObj
            /\ unitReg' = [unitReg EXCEPT ![h] = [res |-> "None", msg |-> 0, cond |-> BlockState("S"),
                                                  target |-> WakeState("S")]]
    /\ unitPc' = [unitPc EXCEPT ![h] = "wake"]
    /\ UNCHANGED <<unitRet, unitLog>>
    /\ BkFrame

\* the first inner loop: `match (next_cond, ext.state.transit(next_cond, next_target))`
BkWakeTransit(h) ==
    /\ h \in BkThreads /\ unitPc[h] = "wake"
    /\ LET o == OtherSide(side(h))
           cond == unitReg[h].cond
           prev == unitObj.state
       IN  /\ unitObj' = [unitObj EXCEPT !.state = Transit(prev, cond, unitReg[h].target)]
           /\ IF prev = "Locked"
              THEN UNCHANGED <<unitPc, unitReg>>
              ELSE IF cond = BlockState(o) /\ prev = BlockState(o)
              THEN /\ unitPc' = [unitPc EXCEPT ![h] = "wake_pop"]
                   /\ unitReg' = unitReg
              ELSE IF cond = WakeState(o) /\ prev = BlockState(o)
              THEN /\ unitReg' = [unitReg EXCEPT ![h].cond = BlockState(o),
                                                 ![h].target = WakeState(o)]
                   /\ unitPc' = unitPc
              ELSE /\ unitPc' = [unitPc EXCEPT ![h] = "res"]
                   /\ unitReg' = unitReg
    /\ UNCHANGED <<unitRet, unitLog>>
    /\ BkFrame

\* `while let Some(blocked) = ext.receivers.try_pop() { blocked.unpark() }`, one turn;
\* after the last: next_cond = Wake*, next_target = Neutral
BkWakePop(h) ==
    /\ h \in BkThreads /\ unitPc[h] = "wake_pop"
    /\ LET o == OtherSide(side(h))
           q == IF o = "S" THEN unitObj.senders ELSE unitObj.receivers
       IN  IF q # <<>>
           THEN /\ unitObj' = [unitObj EXCEPT !.senders = IF o = "S" THEN Tail(@) ELSE @,
                                              !.receivers = IF o = "R" THEN Tail(@) ELSE @,
                                              !.token[Head(q)] = TRUE]
                /\ UNCHANGED <<unitPc, unitReg>>
           ELSE /\ unitReg' = [unitReg EXCEPT ![h].cond = WakeState(o),
                                              ![h].target = "Neutral"]
                /\ unitPc' = [unitPc EXCEPT ![h] = "wake"]
                /\ unitObj' = unitObj
    /\ UNCHANGED <<unitRet, unitLog>>
    /\ BkFrame

\* `match res`: Ok(()) / Some(msg) => return; Err / None => next_cond = Neutral
BkResult(h) ==
    /\ h \in BkThreads /\ unitPc[h] = "res"
    /\ IF unitReg[h].res \in {"Err", "None"}
       THEN /\ unitReg' = [unitReg EXCEPT ![h].cond = "Neutral"]
            /\ unitPc' = [unitPc EXCEPT ![h] = "lock"]
            /\ UNCHANGED <<unitRet, unitLog>>
       ELSE /\ unitPc' = [unitPc EXCEPT ![h] = "idle"]
            /\ unitRet' = Ret(h, unitReg[h].res, NoMsg)
            /\ unitLog' = IF side(h) = "R" THEN Append(unitLog, unitReg[h].msg) ELSE unitLog
            /\ unitReg' = [unitReg EXCEPT ![h] = BkRegs]
    /\ UNCHANGED unitObj
    /\ BkFrame

\* the second inner loop: `match (next_cond, ext.state.transit(next_cond, Locked))`
BkLockTransit(h) ==
    /\ h \in BkThreads /\ unitPc[h] = "lock"
    /\ LET o == OtherSide(side(h))
           cond == unitReg[h].cond
           prev == unitObj.state
       IN  /\ unitObj' = [unitObj EXCEPT !.state = Transit(prev, cond, "Locked")]
           /\ IF prev = "Locked"
              THEN UNCHANGED <<unitPc, unitReg>>
              ELSE IF prev \in {BlockState(o), WakeState(o)}
              THEN /\ unitPc' = [unitPc EXCEPT ![h] = "try"]
                   /\ unitReg' = unitReg
              ELSE IF prev = cond
              THEN /\ unitPc' = [unitPc EXCEPT ![h] = "push"]
                   /\ unitReg' = unitReg
              ELSE /\ unitReg' = [unitReg EXCEPT ![h].cond = prev]
                   /\ unitPc' = unitPc
    /\ UNCHANGED <<unitRet, unitLog>>
    /\ BkFrame

\* push_current: `ext.senders.push(thread::current())`
BkPush(h) ==
    /\ h \in BkThreads /\ unitPc[h] = "push"
    /\ unitObj' = [unitObj EXCEPT !.senders = IF side(h) = "S" THEN Append(@, h) ELSE @,
                                  !.receivers = IF side(h) = "R" THEN Append(@, h) ELSE @]
    /\ unitPc' = [unitPc EXCEPT ![h] = "unlock"]
    /\ UNCHANGED <<unitReg, unitRet, unitLog>>
    /\ BkFrame

\* push_current: `let locked = ext.state.transit(Locked, BlockSender);
\* debug_assert_eq!(locked, Locked)`
BkUnlock(h) ==
    /\ h \in BkThreads /\ unitPc[h] = "unlock"
    /\ unitObj' = [unitObj EXCEPT !.state = Transit(@, "Locked", BlockState(side(h))),
                                  !.panicked = @ \/ unitObj.state # "Locked"]
    /\ unitPc' = [unitPc EXCEPT ![h] = "park"]
    /\ UNCHANGED <<unitReg, unitRet, unitLog>>
    /\ BkFrame

\* push_current: `thread::park()` returns once the thread has a token, and consumes it;
\* the outer loop then starts over
BkPark(h) ==
    /\ h \in BkThreads /\ unitPc[h] = "park"
    /\ unitObj.token[h]
    /\ unitObj' = [unitObj EXCEPT !.token[h] = FALSE]
    /\ unitPc' = [unitPc EXCEPT ![h] = "try"]
    /\ UNCHANGED <<unitReg, unitRet, unitLog>>
    /\ BkFrame

\* every step of thread h
BkStep(h) ==
    \/ BkCall(h) \/ BkTrySend(h) \/ BkTryRecv(h)
    \/ BkWakeTransit(h) \/ BkWakePop(h) \/ BkResult(h)
    \/ BkLockTransit(h) \/ BkPush(h) \/ BkUnlock(h) \/ BkPark(h)

BkNext == \E h \in BkThreads : BkStep(h)

SpecStateBlocker == BkInit /\ [][BkNext]_vars


(***************************************************************************)
(* sequence/owned.rs: claim and commit of the one cache of an Owned        *)
(* sequence, while other threads close the sequence's counter.             *)
(***************************************************************************)
OsOwner == FirstHandle("S")

\* an Owned sequence after any number of commits, and its cache: cache.count is the
\* shared count; the limit is the count or ahead of it
OsInit ==
    /\ UnitFacade("ownedseq")
    /\ fnIn \in [op : {"owned"}, start : AtomicStarts, ahead : 0..Capacity]
    /\ fnOut = NoOut
    /\ unitObj = [counter |-> fnIn.start, last |-> LSB, calls |-> 0,
                  cache |-> [count |-> fnIn.start,
                             limit |-> CounterAdd(fnIn.start, fnIn.ahead)]]
    /\ unitPc = [h \in Handles |-> "idle"]
    /\ unitReg = [h \in Handles |-> 0]
    /\ unitRet = NoRet
    /\ unitLog = <<>>

\* a claim that hands out the count without moving the cache on
ClaimStay(count) == count

\* Owned::claim, `cache.count = count + 1`
ClaimNext(count) == CounterAdd(count, 1)

\* Owned::claim as Half::try_advance calls it; limit.count() reads recent_limit
OsClaim(h, recent_limit) ==
    /\ h = OsOwner /\ AtomicCall(h)
    /\ LET cache == unitObj.cache
           limit == IF cache.count = cache.limit THEN recent_limit ELSE cache.limit
       IN  /\ CounterGe(recent_limit, cache.limit)
           /\ IF cache.count = limit
              THEN /\ unitObj' = [unitObj EXCEPT !.cache.limit = limit, !.calls = @ + 1]
                   /\ AtomicReturn(h, "None", 0)
              ELSE /\ unitObj' = [unitObj EXCEPT !.cache.limit = limit,
                                                 !.cache.count = ClaimNext(cache.count),
                                                 !.calls = @ + 1]
                   /\ unitPc' = [unitPc EXCEPT ![h] = "commit"]
                   /\ unitReg' = [unitReg EXCEPT ![h] = cache.count]
                   /\ unitRet' = unitRet
    /\ UNCHANGED unitLog
    /\ AtomicFrame

\* Owned::commit(cache, count): `match self.count.incr()`; the log keeps what the two
\* debug assertions compare
OsCommit(h) ==
    /\ unitPc[h] = "commit"
    /\ LET prev == unitObj.counter
       IN  /\ unitObj' = [unitObj EXCEPT !.counter = FetchAdd(prev)]
           /\ unitLog' = Append(unitLog,
                  [kind |-> IF IsCounter(prev) THEN "Ok" ELSE "CommitError",
                   closed |-> ~IsCounter(unitObj.counter),
                   prev |-> prev, count |-> unitReg[h],
                   cache_count |-> unitObj.cache.count])
           /\ AtomicReturn(h, IF IsCounter(prev) THEN "Ok" ELSE "CommitError", 0)
    /\ AtomicFrame

OsNext ==
    \/ \E d \in 0..Capacity :
           OsClaim(OsOwner, CounterAdd(unitObj.cache.limit, d))
    \/ OsCommit(OsOwner)
    \/ \E h \in Handles \ {OsOwner} :
           AtomicCloseLoad(h) \/ AtomicCloseCas(h) \/ AtomicCloseStore(h)

SpecOwnedSeq == OsInit /\ [][OsNext]_vars

(***************************************************************************)
(* sequence/shared.rs under a fair scheduler: one sender handle and every   *)
(* receiver handle of a queue over Shared sequences, after the clones.     *)
(* A thread that is inside a call keeps being scheduled; whether a thread  *)
(* starts another call is up to the program.                               *)
(***************************************************************************)
\* queue::<Shared, Shared, _>(capacity), then receiver.clone() for every further handle
SharedInit ==
    /\ facade = "bounded"
    /\ seqKind = [s \in Sides |-> "Shared"]
    /\ seqCount = [s \in Sides |-> CounterNew(0)]
    /\ seqClaimed = [s \in Sides |-> CounterNew(0)]
    /\ headAmount = [s \in Sides |-> IF s = "R" THEN NReceivers ELSE 1]
    /\ headIsClosed = FALSE
    /\ bufBody = [i \in 0..(Capacity - 1) |-> NoMsg]
    /\ half = [h \in Handles |->
                 [alive |-> IF h \in ReceiverIds \/ h = FirstHandle("S")
                            THEN "live" ELSE "unborn",
                  count |-> CounterNew(0), limit |-> CounterNew(0),
                  closed_cache |-> FALSE]]
    /\ pc = [h \in Handles |-> "idle"]
    /\ claimedReg = [h \in Handles |-> CounterNew(0)]
    /\ msgReg = [h \in Handles |-> NoMsg]
    /\ lastRet = NoRet
    /\ sendLog = <<>>
    /\ recvLog = <<>>
    /\ sendQuota = MaxSends
    /\ SchedInit /\ BlockersInit /\ ExtInit /\ UnitInit

\* the steps of a call that is under way on handle h
SharedStep(h) ==
    \/ SharedClaimIncr(h) \/ SharedClaimCheck(h) \/ SharedClaimRevert(h)
    \/ Interact(h) \/ SharedCommit(h)
    \/ h \in ReceiverIds /\ RecvClosedCheck(h)

SharedNext ==
    \/ \E v \in Msgs : TrySend(FirstHandle("S"), v)
    \/ \E h \in ReceiverIds : TryRecv(h)
    \/ \E h \in Handles : SharedStep(h)

SpecSharedFair ==
    SharedInit /\ [][SharedNext]_vars /\ \A h \in Handles : WF_vars(SharedStep(h))

(***************************************************************************)
(* queue/chain.rs over its AtomicArc: Chain handles of both kinds growing, *)
(* walking and closing one chain. Node 0 is the Inner of chain::pair (no   *)
(* buffer, capacity 0 here); every other node is an Inner that grow()      *)
(* allocated. `next` of a node is its AtomicArc slot.                      *)
(***************************************************************************)
\* calls made on the handles of a chain in one run
ChainCalls == MaxOps + 2

\* the Inner nodes one run can link: the head node and one segment per call
ChainNodes == 0..ChainCalls

\* the three states of an AtomicArc
Empty == [st |-> "Empty", seg |-> 0]
Closed == [st |-> "Closed", seg |-> 0]
Holds(n) == [st |-> "Holds", seg |-> n]

\* an init that stores its value whatever the slot holds
ArcInitBlind(slot, value) == Holds(value)

\* AtomicArc::init: `compare_and_swap(null, value)`, the slot afterwards
ArcInit(slot, value) == IF slot = Empty THEN Holds(value) ELSE slot

\* a close that leaves the slot as it is
ArcCloseSkips(slot) == slot

\* AtomicArc::close: `compare_and_swap(null, dangling)`, the slot afterwards
ArcClose(slot) == IF slot = Empty THEN Closed ELSE slot

\* a grow that allocates a segment as large as the last one
GrowSame(cap) == IF cap = 0 THEN 1 ELSE cap

\* Chain::grow, `self.buf().map_or(1, |buf| buf.capacity() * 2)`
GrowCapacity(cap) == IF cap = 0 THEN 1 ELSE cap * 2

\* the locals of a Chain handle: inner, the node a walk of is_closed / close stands on,
\* cache_closed, and whether the running is_closed call began after some close() had
\* returned
ChainRegs == [inner |-> 0, cur |-> 0, cache_closed |-> FALSE, after |-> FALSE]

\* chain::pair, then clones: every handle on the head node, the live counts at the
\* number of handles
ChainInit ==
    /\ UnitFacade("chain")
    /\ fnIn = NoIn /\ fnOut = NoOut
    /\ unitObj = [next |-> [n \in ChainNodes |-> Empty], cap |-> [n \in ChainNodes |-> 0],
                  alloc |-> 0, live |-> [S |-> NSenders, R |-> NReceivers],
                  close_returned |-> FALSE, calls |-> 0]
    /\ unitPc = [h \in Handles |-> "idle"]
    /\ unitReg = [h \in Handles |-> ChainRegs]
    /\ unitRet = NoRet
    /\ unitLog = <<>>

ChainFrame == UnitFrame /\ UNCHANGED <<fnIn, fnOut, unitRet, unitLog>>

\* a call on handle h begins
ChainCall(h) == unitPc[h] = "idle" /\ unitObj.calls < ChainCalls

\* Chain::grow: allocate an Inner of the next capacity and `prev.next.init(inner)`;
\* Empty: the handle moves to its own segment, Holds(next): the candidate is dropped and
\* the handle moves to the segment that is there, Closed: nothing
ChainGrow(h) ==
    /\ h \in SenderIds /\ ChainCall(h)
    /\ LET prev == unitReg[h].inner
           inner == unitObj.alloc + 1
           state == unitObj.next[prev]
       IN  /\ unitObj' = [unitObj EXCEPT
                  !.next[prev] = ArcInit(state, inner),
                  !.cap[inner] = IF state = Empty THEN GrowCapacity(unitObj.cap[prev])
                                 ELSE @,
                  !.alloc = IF state = Empty THEN inner ELSE @,
                  !.calls = @ + 1]
           /\ unitReg' = [unitReg EXCEPT
                  ![h].inner = IF state = Closed THEN @ ELSE unitObj'.next[prev].seg]
    /\ unitPc' = unitPc
    /\ ChainFrame

\* Chain::goto_next: `self.inner.next.fetch()`
ChainGotoNext(h) ==
    /\ ChainCall(h)
    /\ LET state == unitObj.next[unitReg[h].inner]
       IN  unitReg' = [unitReg EXCEPT ![h].inner = IF state.st = "Holds" THEN state.seg
                                                   ELSE @]
    /\ unitObj' = [unitObj EXCEPT !.calls = @ + 1]
    /\ unitPc' = unitPc
    /\ ChainFrame

\* Chain::is_closed, entry: the cached answer, or start the walk at self.inner
ChainIsClosed(h) ==
    /\ ChainCall(h)
    /\ IF unitReg[h].cache_closed
       THEN UNCHANGED <<unitReg, unitPc>>
       ELSE /\ unitReg' = [unitReg EXCEPT ![h].cur = unitReg[h].inner,
                                          ![h].after = unitObj.close_returned]
            /\ unitPc' = [unitPc EXCEPT ![h] = "is_closed"]
    /\ unitObj' = [unitObj EXCEPT !.calls = @ + 1]
    /\ ChainFrame

\* Chain::is_closed, `match inner.next.fetch()`
ChainIsClosedFetch(h) ==
    /\ unitPc[h] = "is_closed"
    /\ LET state == unitObj.next[unitReg[h].cur]
       IN  IF state.st = "Holds"
           THEN /\ unitReg' = [unitReg EXCEPT ![h].cur = state.seg]
                /\ unitPc' = unitPc
           ELSE /\ unitReg' = [unitReg EXCEPT ![h].cache_closed = (state = Closed),
                                              ![h].cur = 0, ![h].after = FALSE]
                /\ unitPc' = [unitPc EXCEPT ![h] = "idle"]
    /\ UNCHANGED unitObj
    /\ ChainFrame

\* Chain::close, entry: nothing if cache_closed, else set it and start the walk
ChainClose(h) ==
    /\ ChainCall(h)
    /\ IF unitReg[h].cache_closed
       THEN /\ unitObj' = [unitObj EXCEPT !.close_returned = TRUE, !.calls = @ + 1]
            /\ UNCHANGED <<unitPc, unitReg>>
       ELSE /\ unitReg' = [unitReg EXCEPT ![h].cache_closed = TRUE,
                                          ![h].cur = unitReg[h].inner]
            /\ unitPc' = [unitPc EXCEPT ![h] = "close"]
            /\ unitObj' = [unitObj EXCEPT !.calls = @ + 1]
    /\ ChainFrame

\* Chain::close, `match inner.next.close()`; the handle of a Drop is gone afterwards
ChainCloseCas(h) ==
    /\ unitPc[h] \in {"close", "drop_close"}
    /\ LET state == unitObj.next[unitReg[h].cur]
       IN  IF state.st = "Holds"
           THEN /\ unitReg' = [unitReg EXCEPT ![h].cur = state.seg]
                /\ UNCHANGED <<unitObj, unitPc>>
           ELSE /\ unitObj' = [unitObj EXCEPT !.next[unitReg[h].cur] = ArcClose(state),
                                              !.close_returned = TRUE]
                /\ unitReg' = [unitReg EXCEPT ![h].cur = 0]
                /\ unitPc' = [unitPc EXCEPT ![h] = IF unitPc[h] = "close" THEN "idle"
                                                   ELSE "dead"]
    /\ ChainFrame

\* Drop for Chain: `live.fetch_sub(1)`, and close() by the last handle of its kind
ChainDrop(h) ==
    /\ ChainCall(h)
    /\ LET last == unitObj.live[side(h)] = 1
       IN  IF last /\ ~unitReg[h].cache_closed
           THEN /\ unitObj' = [unitObj EXCEPT !.live[side(h)] = @ - 1, !.calls = @ + 1]
                /\ unitReg' = [unitReg EXCEPT ![h].cache_closed = TRUE,
                                              ![h].cur = unitReg[h].inner]
                /\ unitPc' = [unitPc EXCEPT ![h] = "drop_close"]
           ELSE /\ unitObj' = [unitObj EXCEPT !.live[side(h)] = @ - 1,
                                              !.close_returned = @ \/ last,
                                              !.calls = @ + 1]
                /\ unitPc' = [unitPc EXCEPT ![h] = "dead"]
                /\ UNCHANGED unitReg
    /\ ChainFrame

ChainNext ==
    \E h \in Handles :
        \/ ChainGrow(h) \/ ChainGotoNext(h)
        \/ ChainIsClosed(h) \/ ChainIsClosedFetch(h)
        \/ ChainClose(h) \/ ChainCloseCas(h)
        \/ ChainDrop(h)

SpecChain == ChainInit /\ [][ChainNext]_vars

(***************************************************************************)
(* Properties of the bounded queue.                                        *)
(***************************************************************************)
IsSPSC == seqKind["S"] = "Owned" /\ seqKind["R"] = "Owned"
IsMPMC == seqKind["S"] = "Shared" /\ seqKind["R"] = "Shared"

\* published and not yet consumed counters: sender.count - receiver.count
Occupancy == CounterSub(seqCount["S"], seqCount["R"])

AllIdle == \A h \in Handles : pc[h] = "idle"
SendersGone == \A h \in SenderIds : half[h].alive # "live"

LogBag(log) ==
    LET ms == {log[i].msg : i \in 1..Len(log)}
    IN  [m \in ms |-> Cardinality({i \in 1..Len(log) : log[i].msg = m})]

RECURSIVE LogSum(_)
LogSum(log) == IF log = <<>> THEN 0 ELSE Head(log).msg.val + LogSum(Tail(log))

\* C1: in a bounded SPSC channel (Owned, Owned) the k-th successful try_recv returns
\* the payload of the k-th successful try_send, under every interleaving: the
\* receive log is a prefix of the send log, and the sends not yet received are
\* exactly the ones the ring still holds.
C1_SpscFifo ==
    IsSPSC =>
        /\ Len(recvLog) <= Len(sendLog)
        /\ \A k \in 1..Len(recvLog) : recvLog[k].msg = sendLog[k].msg
        /\ Len(sendLog) - Len(recvLog) = Occupancy

C1_Witness ==
    /\ IsSPSC
    /\ Len(recvLog) >= 3
    /\ recvLog[3].msg.seq = 3

\* C3: sender.count - receiver.count never exceeds the capacity and never is
\* negative, for Owned and Shared sequences, any number of handles, stale caches.
C3_CapacityBound == Occupancy >= 0 /\ Occupancy <= Capacity

C3_Witness ==
    /\ Occupancy = Capacity
    /\ seqKind["S"] = "Shared"
    /\ \E h \in SenderIds : half[h].alive = "live" /\ half[h].limit # Limit("S")
    /\ \E h \in ReceiverIds : half[h].alive = "live" /\ half[h].limit # Limit("R")

\* a step in which the call running on handle h returns
Returns(h) == pc[h] \notin {"idle", "drop_close"} /\ pc'[h] = "idle"

\* C4: in a bounded MPMC channel, once all sends have completed and the ring is
\* drained, the payloads received are, as a multiset, the payloads accepted (so
\* their sums agree), and a try_recv that returns after every sender was dropped
\* and the ring drained returns the closed-and-drained result.
C4_Conserved ==
    (IsMPMC /\ AllIdle /\ Occupancy = 0) =>
        /\ LogBag(recvLog) = LogBag(sendLog)
        /\ LogSum(recvLog) = LogSum(sendLog)

C4_ClosedAfterDrop ==
    \A h \in ReceiverIds :
        (IsMPMC /\ Returns(h) /\ SendersGone /\ Occupancy = 0
                /\ \A s \in SenderIds : pc[s] = "idle")
            => lastRet' = Ret(h, "None", NoMsg)

C4_MpmcConservation == []C4_Conserved /\ [][C4_ClosedAfterDrop]_vars

C4_Witness ==
    /\ IsMPMC /\ AllIdle /\ Occupancy = 0 /\ SendersGone
    /\ Len(recvLog) = 3
    /\ \A h \in SenderIds : \E i \in 1..Len(sendLog) : sendLog[i].msg.by = h
    /\ lastRet.kind = "None"

\* C5: in an MPMC channel the messages of one producer are published under
\* strictly increasing counters in the order the producer sent them, and the
\* receive stream hands out, counter by counter, the message published under
\* that counter, so it preserves every producer's send order.
C5_ProducerFifo ==
    IsMPMC =>
        /\ \A i, j \in 1..Len(sendLog) :
              (sendLog[i].msg.by = sendLog[j].msg.by /\ sendLog[i].msg.seq < sendLog[j].msg.seq)
                  => CounterLt(sendLog[i].ctr, sendLog[j].ctr)
        /\ \A k \in 1..Len(recvLog) :
              \E i \in 1..Len(sendLog) : sendLog[i] = recvLog[k]
        /\ \A i, j \in 1..Len(recvLog) :
              (recvLog[i].msg.by = recvLog[j].msg.by /\ recvLog[i].msg.seq < recvLog[j].msg.seq)
                  => CounterLt(recvLog[i].ctr, recvLog[j].ctr)

C5_Witness ==
    /\ IsMPMC
    /\ Len(recvLog) = 3
    /\ \E i, j, k \in 1..3 :
          /\ i < k /\ k < j
          /\ recvLog[i].msg.by = recvLog[j].msg.by
          /\ recvLog[k].msg.by # recvLog[i].msg.by

\* C10: a try_send that fails because the buffer is full returns the message it was
\* given inside the error and leaves the channel as it was: no step of the failing
\* call changes sender.count or the ring, and when it returns the claimed counter
\* of a Shared sequence is back at the value the call's fetch-add found.
C10_FullStep(h) ==
    /\ pc[h] \in {"claim", "limit_check", "revert"}
    /\ pc'[h] \in {"limit_check", "revert", "idle"}
    /\ pc'[h] # pc[h]

C10_FullLeavesState ==
    \A h \in SenderIds :
        /\ C10_FullStep(h) => (seqCount' = seqCount /\ bufBody' = bufBody)
        /\ (C10_FullStep(h) /\ pc'[h] = "idle") =>
              /\ lastRet' = Ret(h, "BufferFull",
                                [by |-> h, seq |-> SentBy(h) + 1, val |-> msgReg[h].val])
              /\ sendLog' = sendLog
              /\ seqKind["S"] = "Shared" => seqClaimed'["S"] = claimedReg[h]
              /\ seqKind["S"] = "Owned" => half'[h].count = half[h].count

C10_FullReturnsMessage == [][C10_FullLeavesState]_vars

C10_Witness ==
    /\ lastRet.kind = "BufferFull"
    /\ seqKind["S"] = "Shared"
    /\ Occupancy = Capacity
    /\ seqClaimed["S"] = seqCount["S"]

(***************************************************************************)
(* Properties of channel.rs.                                               *)
(***************************************************************************)
\* closed: every sender dropped, or the closed flag set
ChannelClosed == headAmount["S"] = 0 \/ headIsClosed

\* C6: try_recv returns Ok(None) only when the channel is closed and no message a
\* sender committed is still unreceived in the ring: once the latest return is
\* Ok(None), the channel is closed and sender.count - receiver.count is 0.
C6_NoneOnlyWhenDrained ==
    lastRet.kind = "None" => (ChannelClosed /\ Occupancy = 0)

\* the last Receiver has been dropped, and its drop has run to its end
ReceiversGone == headAmount["R"] = 0 /\ \A h \in ReceiverIds : pc[h] = "idle"

C7_FlagSet == ReceiversGone => headIsClosed

C7_SendFails ==
    ReceiversGone =>
        /\ \A h \in SenderIds : ~(pc[h] = "idle" /\ pc'[h] = "claim")
        /\ (lastRet' # lastRet /\ pc[lastRet'.by] = "idle") =>
              /\ lastRet'.kind = "ReceiverAllClosed"
              /\ lastRet'.payload.by = lastRet'.by
              /\ lastRet'.payload.val \in Msgs

\* C7: once the last Receiver has been dropped the closed flag is true, and every
\* try_send that starts afterwards fails with ReceiverAllClosed and hands the
\* message back.
C7_LastReceiverDropCloses == []C7_FlagSet /\ [][C7_SendFails]_vars

(***************************************************************************)
(* Properties of the blocking send / recv.                                 *)
(***************************************************************************)
\* the sender thread has made all its sends and is outside any call
SenderDone == Len(sendLog) = sendQuota /\ \A h \in SenderIds : pc[h] = "idle"

\* C2: one thread sending and one receiving, blocking, on an initially empty bounded
\* channel: the receiver is never left parked for good while a message is committed
\* in the ring. Once the sender has finished, a receiver that is parked while the
\* ring holds a message has an unpark token pending.
C2_NoLostWakeup ==
    \A r \in ReceiverIds :
        (pc[r] = "park" /\ Occupancy > 0 /\ SenderDone) => parkToken[r]

(***************************************************************************)
(* Properties of the blocking receive of queue/half.rs.                    *)
(***************************************************************************)
\* the drop of the last sender Half has run to its end
DropDone == half[BlockSender].alive = "dropped" /\ pc[BlockSender] = "idle"

\* a thread that is parked with no unpark token pending
Parked(h) == pc[h] = "park" /\ ~parkToken[h]

\* C8: receivers parked inside the blocking receive when the last sender Half is
\* dropped are all woken by the drop and return None. Once the drop has run to its
\* end, no receiver that was parked when it began is still parked without a wake
\* pending: the drop was the last thing that could wake it.
C8_CloseWakesParked == DropDone => \A r \in parkedAtDrop : ~Parked(r)

(***************************************************************************)
(* Properties of extension/blocking.rs.                                    *)
(***************************************************************************)
\* the last sender is dropped and its drop-time notify_receivers has returned
SenderLocalGone == headAmount["S"] = 0 /\ \A h \in SenderIds : pc[h] = "idle"

\* C9: a blocking recv that runs concurrently with, or after, the drop of the last
\* sender on a drained channel is not left parked without a pending wake. Once the
\* drop and its notify_receivers are over and the ring is empty, a receiver that is
\* parked has an unpark token pending.
C9_RecvNotLeftParked ==
    \A r \in ReceiverIds :
        (SenderLocalGone /\ Occupancy = 0 /\ pc[r] = "park") => parkToken[r]

(***************************************************************************)
(* Properties of the counter arithmetic.                                   *)
(***************************************************************************)
\* C11: for every Counter c and every n < 2^(W-3)/2, (c + n) - c = n and, for n > 0,
\* c + n compares greater than c, also when c + n passes the numeric wrap point.
C11_RoundTrip ==
    fnOut.op = "add" => (fnOut.diff = fnIn.n /\ (fnIn.n > 0 => fnOut.cmp = 1))

\* c is in the top quarter and c + n has wrapped to the bottom quarter
C11_Witness ==
    fnOut.op = "add" /\ fnIn.n > 0 /\ msb_pp(fnIn.c) /\ msb_nn(fnOut.sum)

(***************************************************************************)
(* Properties of the AtomicCounter                                         *)
(***************************************************************************)
\* the run makes no comp_swap calls: the counter only moves by incr and close
IncrOnly == ~fnIn.swaps

\* C12: starting just below the numeric wrap point, k increments by several threads
\* lose no update: every incr returns a distinct pre-increment value, the counter is
\* start + k, and it compares greater than start under the counter ordering.
C12_NoLostIncr ==
    (IncrOnly /\ IsCounter(unitObj.counter)) =>
        /\ unitObj.counter = CounterAdd(fnIn.start, Len(unitLog))
        /\ \A i, j \in 1..Len(unitLog) : i # j => unitLog[i] # unitLog[j]
        /\ Len(unitLog) > 0 => CounterCmp(unitObj.counter, fnIn.start) = 1

C12_Witness ==
    /\ IncrOnly /\ IsCounter(unitObj.counter)
    /\ Len(unitLog) = MaxOps
    /\ unitObj.counter < fnIn.start
    /\ unitRet.kind = "Some" /\ unitRet.by # FirstHandle("S")

\* C13: once close has taken effect the counter stays closed: every later fetch
\* returns Err, every later incr None, every later comp_swap fails with None,
\* whatever incr and comp_swap calls are applied to the closed counter.
C13_ClosedForever ==
    [][~IsCounter(unitObj.counter) =>
          /\ ~IsCounter(unitObj'.counter)
          /\ unitRet' # unitRet =>
                unitRet'.kind \in {"Err", "None", "SwapErrNone", "Closed"}]_vars

C13_Witness ==
    /\ ~IsCounter(unitObj.counter) /\ unitObj.counter # LSB
    /\ unitRet.kind = "SwapErrNone"

\* C14: after a close that raced with incr calls, a fetch is never left spinning and
\* returns Err(last), where last is the initial value plus the number of incr calls
\* that returned Some.
C14_FetchAfterClose ==
    IncrOnly =>
        /\ unitRet.kind = "Err" =>
               unitRet.payload.val = CounterAdd(fnIn.start, Len(unitLog))
        /\ ~IsCounter(unitObj.counter) =>
               (IsCounter(unitObj.last) \/ \E h \in Handles : unitPc[h] = "close_store")

C14_Witness ==
    /\ IncrOnly /\ unitRet.kind = "Err"
    /\ Len(unitLog) > 0 /\ unitObj.counter # LSB
    /\ unitObj.last < fnIn.start

(***************************************************************************)
(* Properties of the ring's storage                                        *)
(***************************************************************************)
\* the slots of the counters in [start, start + n)
OccupiedSlots == {SlotOf(CounterAdd(fnIn.start, k)) : k \in 0..(fnIn.n - 1)}

\* number of times slot s was handed to drop_in_place
TimesDropped(s) == Cardinality({i \in 1..Len(fnOut.dropped) : fnOut.dropped[i] = s})

\* C15: when the ring is dropped, exactly the slots whose counters lie in
\* [receiver.count, sender.count) are destructed, once each, and no other slot,
\* also when the range straddles the numeric wrap point.
C15_DropsOccupied ==
    fnOut.op = "drop" =>
        \A s \in 0..(Capacity - 1) :
            TimesDropped(s) = IF s \in OccupiedSlots THEN 1 ELSE 0

C15_Witness ==
    /\ fnOut.op = "drop" /\ fnIn.n = Capacity
    /\ CounterAdd(fnIn.start, fnIn.n) < fnIn.start
    /\ Len(fnOut.dropped) = Capacity

\* C16: constructing the ring panics for every capacity that is zero, not a power
\* of two, or greater than 2^(W-3)/2 - 1, and succeeds for every other capacity.
C16_PanicsIffInvalid ==
    fnOut.op = "new" =>
        (fnOut.panics <=>
            \/ fnIn.capacity = 0
            \/ ~IsPowerOfTwo(fnIn.capacity)
            \/ fnIn.capacity > COUNTER_VALID_RANGE \div 2 - 1)

(***************************************************************************)
(* Properties of the unbounded queue                                       *)
(***************************************************************************)
\* C17: if the only Sender is dropped before anything was sent, a try_recv made
\* afterwards returns Ok(None), closed and drained, not the transient empty error.
C17_ClosedWhenNothingSent ==
    [][(/\ unitPc[UbSender] = "dead" /\ unitObj.sent = 0
        /\ unitPc[UbReceiver] = "idle"
        /\ unitRet' # unitRet /\ unitRet'.by = UbReceiver)
           => unitRet'.kind = "None"]_vars

\* C18: in the unbounded SPSC queue, under every interleaving of sends that grow the
\* chain and try_recv calls, the receiver gets the sent payloads in send order, none
\* twice and none before it was sent, and every segment the receiver has left is
\* drained, so no payload is lost when the sender moves on to a new segment.
C18_InOrderNoLoss ==
    /\ unitLog = [i \in 1..Len(unitLog) |-> i]
    /\ Len(unitLog) <= unitObj.sent
    /\ \A i \in 1..Len(unitObj.segs) :
           i < unitReg[UbReceiver].inner =>
               unitObj.segs[i].count["R"] = unitObj.segs[i].count["S"]
    /\ \A h \in Handles : unitPc[h] # "panic"

C18_Witness ==
    /\ unitRet = Ret(UbReceiver, "Some", Len(unitLog))
    /\ unitReg[UbReceiver].half < unitReg[UbSender].half
    /\ unitPc[UbSender] = "send_commit"
    /\ Len(unitObj.segs) > 1

(***************************************************************************)
(* Properties of the waiter queue                                          *)
(***************************************************************************)
\* the nodes linked after node n, following `next`
RECURSIVE LinkedAfter(_, _)
LinkedAfter(n, seen) ==
    LET next == wqNode[n].next
    IN  IF next = NullPtr \/ next.node \in seen THEN seen
        ELSE LinkedAfter(next.node, seen \cup {next.node})

\* the waiters: every node linked after the head sentinel
Waiters == LinkedAfter(wqHead.node, {}) \ {wqHead.node}

\* C19: the waiter queue never holds non-sentinel nodes of both roles: in every
\* reachable state, under any interleaving of push and pop, all nodes linked after
\* the head sentinel carry the same role.
C19_OneRole ==
    \A a, b \in Waiters : wqNode[a].role = wqNode[b].role

(***************************************************************************)
(* Properties of the Owned sequence                                        *)
(***************************************************************************)
\* the cache() calls that returned kind k
CacheResults(k) == {i \in 1..Len(unitLog) : unitLog[i].kind = k}

\* C20: among any number of cache() calls on an Owned sequence, concurrent or not,
\* at most one returns Ok; every other call returns NotAvailable (or SeqClosed).
C20_AtMostOneCache ==
    /\ Cardinality(CacheResults("Ok")) <= 1
    /\ Cardinality(CacheResults("Ok") \cup CacheResults("SeqClosed")) <= 1

C20_Witness ==
    /\ Cardinality(CacheResults("Ok")) = 1
    /\ Cardinality({unitLog[i].by : i \in CacheResults("NotAvailable")}) > 1
    /\ unitLog[Len(unitLog)].kind = "Ok"

(***************************************************************************)
(* Properties of blocker/sync.rs.                                          *)
(***************************************************************************)
\* both threads have made all their calls and every call has returned
BkDone ==
    /\ \A h \in BkThreads : unitPc[h] = "idle"
    /\ unitObj.sent = MaxSends
    /\ Len(unitLog) = MaxSends

\* the receiver has obtained the first values sent, in send order
BkInOrder == \A i \in 1..Len(unitLog) : unitLog[i] = i

\* no thread can take a step: each is parked without a token, or has made all its calls
BkHalted ==
    \A h \in BkThreads :
        \/ unitPc[h] = "park" /\ ~unitObj.token[h]
        \/ /\ unitPc[h] = "idle"
           /\ IF side(h) = "S" THEN unitObj.sent = MaxSends ELSE Len(unitLog) = MaxSends

\* C21: when one thread makes MaxSends blocking sends and another MaxSends blocking
\* recvs, the receiver obtains the values in send order and the run never comes to a
\* halt with a thread still parked: when no thread can step, both have finished
C21_BothTerminate == BkInOrder /\ (BkHalted => BkDone)

(***************************************************************************)
(* Properties of spsc.rs.                                                  *)
(***************************************************************************)
\* C22: spsc::channel(capacity) panics exactly when capacity is not a power of two or
\* has its most significant bit set
C22_PanicsIffInvalid ==
    fnOut.op = "channel" =>
        (fnOut.panics <=>
            \/ ~IsPowerOfTwo(fnIn.capacity)
            \/ fnIn.capacity >= Pow2(WORD - 1))

(***************************************************************************)
(* Properties of the Shared sequence (sequence/shared.rs) inside the       *)
(* bounded queue.                                                          *)
(***************************************************************************)
\* the commits of side s so far, in the order they took effect
CommitLog(s) == IF s = "S" THEN sendLog ELSE recvLog

\* the threads of side s that hold a claim they have not committed
Holders(s) == {h \in Handles : side(h) = s /\ pc[h] \in {"interact", "commit"}}

\* C23: on a Shared sequence the commits take effect in counter order whatever the
\* order in which the claimants finish their slot I/O: the i-th commit is the one of
\* counter i - 1, the published count n means exactly the counters below n were
\* committed, and every claim still being worked on is at or above the count
C23_CommitsInClaimOrder ==
    \A s \in Sides : seqKind[s] = "Shared" =>
        /\ \A i \in 1..Len(CommitLog(s)) : CommitLog(s)[i].ctr = CounterNew(i - 1)
        /\ seqCount[s] = CounterNew(Len(CommitLog(s)))
        /\ \A h \in Holders(s) : CounterGe(claimedReg[h], seqCount[s])

\* the claimant of counter 1 has finished its slot I/O and waits in commit while the
\* claimant of counter 0 is still at its slot
C23_Witness ==
    /\ seqKind["S"] = "Shared"
    /\ seqCount["S"] = CounterNew(0)
    /\ \E h1, h2 \in SenderIds :
          /\ pc[h1] = "interact" /\ claimedReg[h1] = CounterNew(0)
          /\ pc[h2] = "commit" /\ claimedReg[h2] = CounterNew(1)

\* the counters side s has claimed and committed so far
Committed(s) == {CommitLog(s)[i].ctr : i \in 1..Len(CommitLog(s))}

\* C24: each ring slot is worked on by at most one thread at a time. No counter is
\* handed out twice by the claims of one side; two threads that hold uncommitted claims
\* never hold the same slot; and a sender about to write its slot finds it empty
\* (Bucket::set), a receiver about to read its slot finds it filled (Bucket::get)
C24_SlotExclusive ==
    /\ \A s \in Sides : \A h \in Holders(s) :
          /\ claimedReg[h] \notin Committed(s)
          /\ \A g \in Holders(s) : g # h => claimedReg[g] # claimedReg[h]
    /\ \A h, g \in Holders("S") \cup Holders("R") :
          g # h => SlotOf(claimedReg[g]) # SlotOf(claimedReg[h])
    /\ \A h \in Handles : pc[h] = "interact" =>
          IF side(h) = "S" THEN bufBody[SlotOf(claimedReg[h])] = NoMsg
                           ELSE bufBody[SlotOf(claimedReg[h])] # NoMsg

\* a sender writes one slot of the ring while a receiver reads the other one, after the
\* ring has wrapped around
C24_Witness ==
    /\ \E h \in SenderIds : pc[h] = "interact" /\ claimedReg[h] = CounterNew(Capacity)
    /\ \E h \in ReceiverIds : pc[h] = "interact" /\ claimedReg[h] = CounterNew(1)

\* the step is the successful revert of a claim on side s: the compare-and-swap of
\* `claimed` from the caller's claimed + 1 back to claimed
IsRevert(s) ==
    \E h \in Handles :
        /\ side(h) = s /\ pc[h] = "revert" /\ pc'[h] # "revert"
        /\ seqClaimed[s] = CounterAdd(claimedReg[h], 1)
        /\ seqClaimed'[s] = claimedReg[h]

\* a step leaves count and claimed of every Shared sequence where they were or further on
C25_Advance ==
    \A s \in Sides : seqKind[s] = "Shared" =>
        /\ seqCount'[s] = seqCount[s] \/ CounterGe(seqCount'[s], seqCount[s])
        /\ seqClaimed'[s] = seqClaimed[s] \/ CounterGe(seqClaimed'[s], seqClaimed[s])

\* C25: in a Shared sequence no operation ever makes count or claimed smaller than a
\* value it held before
C25_BothMonotonic == [][C25_Advance]_vars

\* as C25_Advance, but for the successful revert of a claim
C25_AdvanceButRevert ==
    \A s \in Sides : seqKind[s] = "Shared" =>
        /\ seqCount'[s] = seqCount[s] \/ CounterGe(seqCount'[s], seqCount[s])
        /\ \/ seqClaimed'[s] = seqClaimed[s]
           \/ CounterGe(seqClaimed'[s], seqClaimed[s])
           \/ IsRevert(s)
        /\ seqClaimed'[s] = seqCount'[s] \/ CounterGe(seqClaimed'[s], seqCount'[s])

\* C25 as amended: count never gets smaller; claimed gets smaller only in the
\* successful revert of a claim that found no room, which takes back that claim's own
\* increment, and it never falls below count
C25_MonotonicButRevert == [][C25_AdvanceButRevert]_vars

\* a claim on a full ring has reverted its increment: claimed is back at the count
C25_Witness ==
    /\ seqKind["S"] = "Shared"
    /\ lastRet.kind = "BufferFull"
    /\ Len(sendLog) = Capacity
    /\ seqCount["S"] = CounterNew(Capacity)
    /\ seqClaimed["S"] = CounterNew(Capacity)

\* the threads of side s that have done the fetch-add of claim and have neither
\* committed nor reverted
InFlight(s) ==
    {h \in Handles : side(h) = s /\ pc[h] \in {"limit_check", "revert", "interact", "commit"}}

\* C26: in every reachable state of an open Shared sequence,
\* count <= claimed <= count + inflight
C26_ClaimedWithinInflight ==
    \A s \in Sides : seqKind[s] = "Shared" =>
        /\ CounterGe(seqClaimed[s], seqCount[s])
        /\ CounterGe(CounterAdd(seqCount[s], Cardinality(InFlight(s))), seqClaimed[s])

\* two senders are between their fetch-add and their commit, after one message was
\* published: claimed is two ahead of count
C26_Witness ==
    /\ seqKind["S"] = "Shared"
    /\ Cardinality(InFlight("S")) = 2
    /\ seqCount["S"] = CounterNew(1)
    /\ seqClaimed["S"] = CounterNew(3)

(***************************************************************************)
(* Properties of Owned::commit.                                            *)
(***************************************************************************)
\* C27: whenever Owned::commit succeeds, the pre-increment value its incr returned is
\* the counter that was claimed and the cache's count is that value plus one; if the
\* sequence was closed the commit returns CommitError
C27_CommitAssertions ==
    \A i \in 1..Len(unitLog) :
        LET e == unitLog[i]
        IN  /\ e.kind = "Ok" => e.prev = e.count /\ e.cache_count = CounterAdd(e.prev, 1)
            /\ e.closed => e.kind = "CommitError"

\* a commit went through as the counter wrapped, and a later one met the closed sequence
C27_Witness ==
    \E i, j \in 1..Len(unitLog) :
        /\ i < j
        /\ unitLog[i].kind = "Ok" /\ unitLog[i].cache_count = CounterNew(0)
        /\ unitLog[j].kind = "CommitError"

(***************************************************************************)
(* Progress of Shared::claim and Shared::commit.                           *)
(***************************************************************************)
\* C28: under weak fairness of all threads every Shared::claim and Shared::commit call
\* on an open sequence eventually returns: every call under way comes to its end
C28_EveryCallReturns == \A h \in Handles : (pc[h] # "idle") ~> (pc[h] = "idle")

\* another thread of h's side is entering a claim
Overtaken(h) == \E g \in Handles \ {h} : side(g) = side(h) /\ pc[g] = "claim"

\* C28 as amended: every call under way returns, unless the other threads of its side
\* start new claims again and again without end
C28_ReturnsUnlessOvertaken ==
    \A h \in Handles : []<>Overtaken(h) \/ ((pc[h] # "idle") ~> (pc[h] = "idle"))

\* a receiver's revert is about to fail because another receiver's fetch-add came in
\* after its own
C28_Witness ==
    \E h \in ReceiverIds :
        /\ pc[h] = "revert"
        /\ seqClaimed["R"] = CounterAdd(claimedReg[h], 2)

(***************************************************************************)
(* Properties of the waiter queue (scheduler/queue.rs)                     *)
(***************************************************************************)
\* the linking CAS of the push of handle h takes effect in this step
Links(h) == pc[h] = "push_link" /\ pc'[h] = "push_swing"

\* the push of handle h returns Err(node) in this step
Refused(h) == pc[h] \in {"push_tail", "push_next"} /\ pc'[h] = "claim"

\* every `next` link of the queue is left as it was
LinksUnchanged == \A n \in NodeIds : wqNode'[n].next = wqNode[n].next

\* a step of Queue::push as C29 describes it
C29_PushStep ==
    \A h \in Handles :
        /\ Links(h) => \A n \in Waiters : wqNode[n].role = side(h)
        /\ Refused(h) =>
              /\ UNCHANGED <<wqHead, wqTail>> /\ LinksUnchanged
              /\ schedNode'[h] = reg[h].node

RECURSIVE ChainFrom(_, _)
ChainFrom(n, seen) ==
    LET next == wqNode[n].next
    IN  IF next = NullPtr \/ next.node \in seen THEN <<>>
        ELSE <<next.node>> \o ChainFrom(next.node, seen \cup {next.node})

\* the queued waiters, oldest first: the nodes after the head sentinel
WaitSeq == ChainFrom(wqHead.node, {wqHead.node})

\* the head CAS of the pop of handle h takes effect in this step
Pops(h) == pc[h] = "pop_cas" /\ wqHead' # wqHead

\* the pop of handle h returns None in this step
PopsNone(h) == pc[h] = "pop_next" /\ pc'[h] = "idle"

\* a step of the waiter queue as C30 describes it
C30_QueueStep ==
    \A h \in Handles :
        /\ Links(h) => WaitSeq' = Append(WaitSeq, reg[h].node)
        /\ Pops(h) =>
              /\ WaitSeq # <<>> /\ WaitSeq' = Tail(WaitSeq)
              /\ wqNode[Head(WaitSeq)].role = Counterpart(side(h))
              /\ wqNode[Head(WaitSeq)].handle \in Handles
              /\ schedNotify[wqNode[Head(WaitSeq)].handle]
              /\ pc'[h] = "notify" /\ reg'[h].node = wqNode[Head(WaitSeq)].handle
        /\ PopsNone(h) => UNCHANGED <<wqHead, wqTail>> /\ LinksUnchanged

\* C30: the waiter queue is FIFO: a push that takes effect puts its node behind every
\* queued waiter, pop(R) takes the oldest queued waiter, which has role R and is still
\* waiting to be notified, and hands out its handle, and a pop that returns None leaves
\* the queue as it was.
C30_Fifo == [][C30_QueueStep]_vars

\* the last node of the list that starts at the head sentinel
ChainEnd == IF WaitSeq = <<>> THEN wqHead.node ELSE WaitSeq[Len(WaitSeq)]

\* the list that starts at the head sentinel ends in a null link: finite and acyclic
Acyclic == wqNode[ChainEnd].next = NullPtr

\* a step of the waiter queue as C31 describes it
C31_RecycleStep ==
    /\ \A h \in Handles : Links(h) => wqNode[reg[h].node].next = NullPtr
    /\ Acyclic'
    /\ \A h \in Handles :
          (Pops(h) /\ pc'[h] = "notify") => schedNotify[reg'[h].node]

\* C31: waiter nodes are recycled safely: a node is linked with a null successor, the
\* list reachable from head through next links stays finite and acyclic, and pop hands
\* out a registered handle at most once per registration (its Notify is still there).
C31_RecycledSafely == [][C31_RecycleStep]_vars

(***************************************************************************)
(* Properties of the tagged pointer (scheduler/atomic.rs)                  *)
(***************************************************************************)
\* C32: the tagged atomic pointer round-trips: loading an Atomic that stores the
\* 64-byte-aligned address p (null included) with tag f yields pointer p and tag f.
C32_PtrRoundTrip ==
    fnOut.op = "ptr" => fnOut.inner = fnIn.inner /\ fnOut.flag = fnIn.flag

(***************************************************************************)
(* Properties of the chain (queue/chain.rs, queue/atomic.rs)               *)
(***************************************************************************)
\* a step in which the successor slot of node n changes
SlotChanges(n) == unitObj'.next[n] # unitObj.next[n]

\* a step of the chain as C33 describes it
C33_SlotStep ==
    \A n \in ChainNodes :
        SlotChanges(n) =>
            /\ unitObj.next[n] = Empty
            /\ unitObj'.next[n].st \in {"Holds", "Closed"}
            /\ \A m \in ChainNodes \ {n} : ~SlotChanges(m)

\* a call that changes no slot links nothing: an init that lost drops its candidate
LoserDrops ==
    (\A n \in ChainNodes : ~SlotChanges(n)) =>
        unitObj'.alloc = unitObj.alloc /\ unitObj'.cap = unitObj.cap

\* C33: a chain link's successor slot changes state at most once: from Empty to Holds
\* or from Empty to Closed; once it is Holds or Closed no init or close changes it,
\* and an init that finds it so drops its candidate.
C33_SlotSetOnce == [][C33_SlotStep /\ LoserDrops]_vars

\* two senders grew from the head node, one of them lost its init, and the chain was
\* closed behind the segment that was linked
C33_Witness ==
    /\ unitObj.next[0] = Holds(1) /\ unitObj.alloc = 1
    /\ \A h \in SenderIds : unitReg[h].inner = 1
    /\ unitObj.next[1] = Closed

\* the segments linked so far
Linked == {n \in ChainNodes : \E p \in ChainNodes : unitObj.next[p] = Holds(n)}

\* a step that moves a handle moves it onto the segment linked behind the one it was on
GrowLands ==
    \A h \in Handles :
        unitReg'[h].inner # unitReg[h].inner =>
            unitObj'.next[unitReg[h].inner] = Holds(unitReg'[h].inner)

\* a step of the chain as C34 describes it
C34_GrowStep ==
    /\ \A p \in ChainNodes :
          unitObj'.next[p].st = "Holds" =>
              unitObj'.cap[unitObj'.next[p].seg] =
                  IF p = 0 THEN 1 ELSE 2 * unitObj'.cap[p]
    /\ Cardinality(Linked') = unitObj'.alloc
    /\ GrowLands

\* C34: the first buffer-carrying segment has capacity 1 and every other linked segment
\* twice the capacity of its predecessor; of several grow() calls on the same last
\* segment one segment is linked, and every caller ends on that segment.
C34_CapacityDoubles == [][C34_GrowStep]_vars

\* two senders grew from the same segment: one segment of capacity 2 is linked behind
\* the segment of capacity 1 and both stand on it
C34_Witness ==
    /\ unitObj.next[1] = Holds(2) /\ unitObj.cap[1] = 1 /\ unitObj.cap[2] = 2
    /\ unitObj.alloc = 2
    /\ \A h \in SenderIds : unitReg[h].inner = 2

\* a step of the chain as C35 describes it
C35_ClosedStep ==
    /\ unitObj.close_returned =>
          \A n \in ChainNodes :
              unitObj'.next[n].st = "Holds" => unitObj.next[n].st = "Holds"
    /\ \A h \in Handles :
          (unitPc[h] = "is_closed" /\ unitPc'[h] = "idle" /\ unitReg[h].after) =>
              unitReg'[h].cache_closed

\* C35: once Chain::close() has returned on any handle, no later grow() links a new
\* segment and every later is_closed() call on any handle returns true.
C35_ClosedForGood == [][C35_ClosedStep]_vars

\* an is_closed() that began after a close() had returned has walked from the head node
\* over a linked segment to the closed slot, while a sender stands on that last segment
C35_Witness ==
    /\ unitObj.close_returned
    /\ unitObj.next[0] = Holds(1) /\ unitObj.next[1] = Closed
    /\ \E h \in Handles :
          /\ unitPc[h] = "is_closed" /\ unitReg[h].after
          /\ unitReg[h].inner = 0 /\ unitReg[h].cur = 1
          /\ \E g \in SenderIds \ {h} : unitReg[g].inner = 1 /\ unitPc[g] = "idle"

(***************************************************************************)
(* Properties of the unbounded queue under close                           *)
(***************************************************************************)
\* C36: for every interleaving of an unbounded try_send with the chain being closed,
\* try_send returns Ok(()) or Err(SendError(msg)) with the original message; it never
\* panics on the unwrap of a missing buffer and never reaches unreachable!().
C36_SendNeverPanics ==
    /\ unitPc[UbSender] # "panic"
    /\ unitRet.by = UbSender =>
          \/ unitRet.kind = "Ok"
          \/ unitRet.kind = "SendError" /\ unitRet.payload = unitObj.sent + 1

\* C37: with every thread inside a call scheduled fairly, every unbounded try_recv
\* returns after finitely many steps: it neither re-creates a Half for ever nor
\* spins for ever on a closed segment without a successor.
C37_TryRecvReturns ==
    (unitPc[UbReceiver] \notin {"idle", "dead"}) ~> (unitPc[UbReceiver] = "idle")

(***************************************************************************)
(* Properties of the reference counts (queue/bounded/half.rs, head.rs)     *)
(***************************************************************************)
\* the Halves of a side that exist and are not past the fetch_sub of their drop
LiveHalves(sd) ==
    {h \in Handles : side(h) = sd /\ half[h].alive = "live" /\ pc[h] # "drop_close"}

Closing(sd) == \E h \in Handles : side(h) = sd /\ pc[h] = "drop_close"

CountsAndFlag ==
    /\ \A sd \in Sides : headAmount[sd] = Cardinality(LiveHalves(sd))
    /\ \A sd \in Sides : (headAmount[sd] = 0 /\ ~Closing(sd)) => headIsClosed
    /\ \A h \in Handles : half[h].closed_cache => headIsClosed
    /\ headIsClosed => \A h \in Handles : HalfIsClosed(h)

\* C38: at every state the reference count of each endpoint is the number of its live
\* Halves (one from construction, one more per clone, one less per drop); once the
\* drop that took a count to zero is done the shared closed flag is set; no Half sees
\* closed before that, every Half's is_closed() is true from then on, and the flag
\* never goes back.
C38_CountsLiveHalves == []CountsAndFlag /\ [][headIsClosed => headIsClosed']_vars

\* both senders, the first and its clone, are dropped, the flag is set, and a live
\* receiver has seen it
C38_Witness ==
    /\ headAmount["S"] = 0 /\ headIsClosed
    /\ \A h \in SenderIds : half[h].alive = "dropped"
    /\ \E h \in ReceiverIds : half[h].alive = "live" /\ half[h].closed_cache

(***************************************************************************)
(* Properties of the slot index (counter/counter.rs, buffer.rs)            *)
(***************************************************************************)
\* C39: for every counter value and every power-of-two capacity the constructor
\* accepts, the slot index is the counter's logical value modulo the capacity, and the
\* index of the counter plus one is the next index cyclically, also where the word
\* wraps: index(c + 1) = (index(c) + 1) mod capacity.
C39_IndexCyclic ==
    fnOut.op = "get" =>
        /\ fnOut.index = (fnIn.c \div 2) % fnIn.capacity
        /\ fnOut.next = (fnOut.index + 1) % fnIn.capacity

\* the last counter before the word wraps, on the largest ring: the last slot, then
\* slot 0
C39_Witness ==
    /\ fnOut.op = "get" /\ fnIn.c = WordMod - 2 /\ fnIn.capacity = COUNTER_VALID_RANGE
    /\ fnOut.index = fnIn.capacity - 1 /\ fnOut.next = 0

====
